---- MODULE Spec2Model ----
(***************************************************************************)
(* Binary codec of the Stormworks mesh add-on: the static mesh format     *)
(* (Mesh / SubMesh / MeshVertex) and the physics mesh format (PhysicsMesh  *)
(* / SubPhysMesh) of data_struct.py and mesh_struct.py, modelled at the    *)
(* level of the bytes that struct.pack / struct.unpack and reader.read     *)
(* exchange with the file.                                                 *)
(*                                                                         *)
(* A byte is a number in 0..255 and a file is a sequence of bytes.  An     *)
(* unsigned integer in memory is a number.  A float in memory is a finite  *)
(* float32 value, named by the four octets of its IEEE-754 single          *)
(* encoding, most significant first (1.0 is <<63,128,0,0>>); '<f' writes   *)
(* them least significant first.  A str is the sequence of its code        *)
(* points; a name in the file is its UTF-8 encoding.  Where an int and a   *)
(* tuple can meet in one list (SubPhysMesh.indices) the int n is           *)
(* [t |-> "int", v |-> <<n>>] and the tuple (n,) is                        *)
(* [t |-> "tuple", v |-> <<n>>].                                           *)
(***************************************************************************)
EXTENDS Integers, Sequences, FiniteSets, TLC

(* ------------------------------ bounds -------------------------------- *)
MaxVerts == 2
MaxTris == 1
MaxSubs == 2
BigVerts == 8
MaxPhysSubs == 2
MaxPhysVerts == 2
MaxPhysIdx == 2
MaxBones == 3
MaxRefs == 2
MaxAnimBones == 2
MaxResolveBones == 4
MaxFaces == 2
MaxCalls == 2
MaxSubmeshCalls == 2
MaxAdds == 4
MaxPhysObjects == 2
MaxLoadVerts == 7

(* ------------------------- generic helpers ---------------------------- *)
Min(a, b) == IF a <= b THEN a ELSE b
Max(a, b) == IF a >= b THEN a ELSE b
Range(f) == {f[k] : k \in DOMAIN f}

RECURSIVE Flatten(_)
Flatten(ss) == IF ss = <<>> THEN <<>> ELSE Head(ss) \o Flatten(Tail(ss))

(* reader.read(n): at most n bytes from the cursor p (0-based) *)
Read(b, p, n) == SubSeq(b, p + 1, Min(p + n, Len(b)))

(* struct.unpack needs exactly calcsize(fmt) bytes *)
Avail(b, p, n) == Len(b) - p >= n

(* --------------------- struct.pack / struct.unpack -------------------- *)
U16Pack(v) == <<v % 256, v \div 256>>
U16Unpack(b) == b[1] + 256 * b[2]

(* '<I'.  TLC's numbers are 32-bit signed, so a uint32 from 2^31 on is    *)
(* named by v - 2^32 (a negative number); U32Mod3 and U32Below compute on  *)
(* the value so named.                                                     *)
U32Pack(v) ==
  IF v >= 0
  THEN <<v % 256, (v \div 256) % 256, (v \div 65536) % 256, v \div 16777216>>
  ELSE LET w == (v + 2147483647) + 1
       IN <<w % 256, (w \div 256) % 256, (w \div 65536) % 256, 128 + (w \div 16777216)>>
U32Unpack(b) ==
  b[1] + 256 * b[2] + 65536 * b[3]
    + 16777216 * (IF b[4] < 128 THEN b[4] ELSE b[4] - 256)
U32Mod3(v) == IF v >= 0 THEN v % 3 ELSE ((v % 3) + 1) % 3
U32Below(n, v) == v < 0 \/ n < v

F32Pack(f) == <<f[4], f[3], f[2], f[1]>>
F32Unpack(b) == <<b[4], b[3], b[2], b[1]>>

(* str.encode('utf-8') and bytes.decode('utf-8') for code points below     *)
(* 0x800 (one- and two-byte forms); every other byte sequence is rejected  *)
(* by the decoder, as are overlong two-byte forms (lead 0xC0, 0xC1).       *)
RECURSIVE Utf8Encode(_)
Utf8Encode(s) ==
  IF s = <<>> THEN <<>>
  ELSE (IF Head(s) < 128 THEN <<Head(s)>>
        ELSE <<192 + (Head(s) \div 64), 128 + (Head(s) % 64)>>)
       \o Utf8Encode(Tail(s))

RECURSIVE Utf8Valid(_)
Utf8Valid(b) ==
  IF b = <<>> THEN TRUE
  ELSE IF b[1] < 128 THEN Utf8Valid(Tail(b))
  ELSE IF b[1] >= 194 /\ b[1] <= 223 /\ Len(b) >= 2 /\ b[2] >= 128 /\ b[2] <= 191
       THEN Utf8Valid(Tail(Tail(b)))
  ELSE FALSE

RECURSIVE Utf8Decode(_)
Utf8Decode(b) ==
  IF b = <<>> THEN <<>>
  ELSE IF b[1] < 128 THEN <<b[1]>> \o Utf8Decode(Tail(b))
  ELSE <<(b[1] - 192) * 64 + (b[2] - 128)>> \o Utf8Decode(Tail(Tail(b)))

(* ------------------------- geometric values --------------------------- *)
F0 == <<0, 0, 0, 0>>
F1 == <<63, 128, 0, 0>>
F2 == <<64, 0, 0, 0>>
FM1 == <<191, 128, 0, 0>>

Vec3(x, y, z) == [x |-> x, y |-> y, z |-> z]
Vec3One == Vec3(F1, F1, F1)
Vec3ToWriter(v) == F32Pack(v.x) \o F32Pack(v.y) \o F32Pack(v.z)
Vec3FromReader(b) == Vec3(F32Unpack(SubSeq(b, 1, 4)), F32Unpack(SubSeq(b, 5, 8)),
                          F32Unpack(SubSeq(b, 9, 12)))

Color(r, g, b, a) == [r |-> r, g |-> g, b |-> b, a |-> a]
ColorToWriter(c) == <<c.r, c.g, c.b, c.a>>
ColorFromReader(b) == Color(b[1], b[2], b[3], b[4])

MeshVertex(p, c, n) == [position |-> p, color |-> c, normal |-> n]
VertexSize == 28
(* variant: the colour written in the order b, g, r, a *)
MeshVertexToWriterBGRA(v) ==
  Vec3ToWriter(v.position) \o <<v.color.b, v.color.g, v.color.r, v.color.a>>
    \o Vec3ToWriter(v.normal)

MeshVertexToWriter(v) ==
  Vec3ToWriter(v.position) \o ColorToWriter(v.color) \o Vec3ToWriter(v.normal)
MeshVertexFromReader(b) ==
  MeshVertex(Vec3FromReader(SubSeq(b, 1, 12)), ColorFromReader(SubSeq(b, 13, 16)),
             Vec3FromReader(SubSeq(b, 17, 28)))

SubMesh(st, ln, sh, mn, mx, nm) ==
  [index_buffer_start |-> st, index_buffer_length |-> ln, shader_id |-> sh,
   bounds_min |-> mn, bounds_max |-> mx, name |-> nm]

MeshValue(vs, is, ss) == [vertices |-> vs, indices |-> is, submeshes |-> ss]

MagicMesh == <<109, 101, 115, 104>>
MagicPhys == <<112, 104, 121, 115>>

(* ------------------------------ writers ------------------------------- *)
(* variant: the name length written is len(self.name), not len(name_bytes) *)
SubMeshToWriterCharLen(sm) ==
  U32Pack(sm.index_buffer_start) \o U32Pack(sm.index_buffer_length)
    \o U16Pack(0) \o U16Pack(sm.shader_id)
    \o Vec3ToWriter(sm.bounds_min) \o Vec3ToWriter(sm.bounds_max)
    \o U16Pack(0) \o U16Pack(Len(sm.name)) \o Utf8Encode(sm.name)
    \o Vec3ToWriter(Vec3One)

SubMeshToWriter(sm) ==
  U32Pack(sm.index_buffer_start) \o U32Pack(sm.index_buffer_length)
    \o U16Pack(0) \o U16Pack(sm.shader_id)
    \o Vec3ToWriter(sm.bounds_min) \o Vec3ToWriter(sm.bounds_max)
    \o U16Pack(0) \o U16Pack(Len(Utf8Encode(sm.name))) \o Utf8Encode(sm.name)
    \o Vec3ToWriter(Vec3One)

(* variant: the fourth header field written as 0x19 *)
MeshHeaderToWriterHex19(m) ==
  MagicMesh \o U16Pack(7) \o U16Pack(1) \o U16Pack(Len(m.vertices))
    \o U16Pack(25) \o U16Pack(0)

MeshHeaderToWriter(m) ==
  MagicMesh \o U16Pack(7) \o U16Pack(1) \o U16Pack(Len(m.vertices))
    \o U16Pack(19) \o U16Pack(0)

(* ------------------------------ readers ------------------------------- *)
Impls == {"data_struct", "mesh_struct"}

NoValue == [none |-> TRUE]

SubFail(e, st, p, lg) == [err |-> e, site |-> st, pos |-> p, value |-> NoValue, log |-> lg]

(* the reserved uint16 and the name of a submesh record, read at cursor p.  *)
(* data_struct: `if strict and _read_ushort(reader) != 0` reads the        *)
(* reserved field only when strict, then _read_name reads the length and   *)
(* the bytes.  mesh_struct: `h6, name_len = _read_unpack(reader, '<HH')`.  *)
SubMeshNameFromReader(b, p, s, im) ==
  LET readsH6 == (im = "mesh_struct") \/ s
      pn == IF readsH6 THEN p + 2 ELSE p
      lgH == IF readsH6 THEN <<<<"h6", p>>>> ELSE <<>>
      lgN == lgH \o <<<<"name_len", pn>>>>
      short == IF im = "mesh_struct" THEN ~Avail(b, p, 4)
               ELSE (readsH6 /\ ~Avail(b, p, 2))
  IN IF short THEN SubFail("struct.error", "h6", Len(b), lgH)
     ELSE IF s /\ im = "data_struct" /\ U16Unpack(Read(b, p, 2)) # 0
          THEN SubFail("ValueError", "h6", p + 2, lgH)
     ELSE IF ~Avail(b, pn, 2) THEN SubFail("struct.error", "name_len", Len(b), lgN)
     ELSE IF s /\ im = "mesh_struct" /\ U16Unpack(Read(b, p, 2)) # 0
          THEN SubFail("ValueError", "h6", pn + 2, lgN)
     ELSE LET name_len == U16Unpack(Read(b, pn, 2))
              raw == Read(b, pn + 2, name_len)
              lg == lgN \o <<<<"name", pn + 2>>>>
          IN IF ~Utf8Valid(raw)
             THEN SubFail("UnicodeDecodeError", "name", pn + 2 + Len(raw), lg)
             ELSE [err |-> "none", site |-> "", pos |-> pn + 2 + Len(raw),
                   value |-> Utf8Decode(raw), log |-> lg]

(* SubMesh.from_reader(reader, strict) with the reader at cursor p *)
SubMeshFromReader(b, p, s, im) ==
  LET lg1 == <<<<"submesh", p>>>>
  IN IF ~Avail(b, p, 12) THEN SubFail("struct.error", "submesh", Len(b), lg1)
     ELSE
     LET index_buffer_start == U32Unpack(Read(b, p, 4))
         index_buffer_length == U32Unpack(Read(b, p + 4, 4))
         h2 == U16Unpack(Read(b, p + 8, 2))
         shader_id == U16Unpack(Read(b, p + 10, 2))
         lg2 == lg1 \o <<<<"bounds_min", p + 12>>>>
         lg3 == lg2 \o <<<<"bounds_max", p + 24>>>>
     IN IF s /\ h2 # 0 THEN SubFail("ValueError", "h2", p + 12, lg1)
        ELSE IF s /\ ~(0 <= shader_id /\ shader_id <= 3)
             THEN SubFail("ValueError", "shader_id", p + 12, lg1)
        ELSE IF ~Avail(b, p + 12, 12) THEN SubFail("struct.error", "bounds_min", Len(b), lg2)
        ELSE IF ~Avail(b, p + 24, 12) THEN SubFail("struct.error", "bounds_max", Len(b), lg3)
        ELSE
        LET bounds_min == Vec3FromReader(Read(b, p + 12, 12))
            bounds_max == Vec3FromReader(Read(b, p + 24, 12))
            nm == SubMeshNameFromReader(b, p + 36, s, im)
            lg4 == lg3 \o nm.log
            lg5 == lg4 \o <<<<"h8", nm.pos>>>>
        IN IF nm.err # "none" THEN SubFail(nm.err, nm.site, nm.pos, lg4)
           ELSE IF ~Avail(b, nm.pos, 12) THEN SubFail("struct.error", "h8", Len(b), lg5)
           ELSE IF s /\ Vec3FromReader(Read(b, nm.pos, 12)) # Vec3One
                THEN SubFail("ValueError", "h8", nm.pos + 12, lg5)
           ELSE [err |-> "none", site |-> "", pos |-> nm.pos + 12,
                 value |-> SubMesh(index_buffer_start, index_buffer_length, shader_id,
                                   bounds_min, bounds_max, nm.value),
                 log |-> lg5]

(* ------------------------- the files given ---------------------------- *)
(* The values the model draws meshes from.                                 *)
VA == MeshVertex(Vec3(F0, F0, F0), Color(0, 0, 0, 0), Vec3(F0, F0, F0))
VB == MeshVertex(Vec3(F1, F2, F0), Color(255, 0, 0, 255), Vec3(F0, F0, F1))
SA == SubMesh(0, 3, 0, Vec3(F0, F0, F0), Vec3(F1, F2, F0), <<97>>)
SB == SubMesh(3, 0, 3, Vec3(F0, F0, F0), Vec3(F0, F0, F0), <<233, 98>>)

BaseMesh(n, k, s) ==
  MeshValue([i \in 1..n |-> IF i % 2 = 1 THEN VB ELSE VA],
            [j \in 1..k |-> (j - 1) % n],
            [j \in 1..s |-> IF j % 2 = 1 THEN SA ELSE SB])

Bases ==
  {BaseMesh(n, 3 * t, s) : n \in 1..MaxVerts, t \in 0..MaxTris, s \in 0..MaxSubs}
    \cup {BaseMesh(0, 0, s) : s \in 0..MaxSubs}

BigMesh == MeshValue([i \in 1..BigVerts |-> VA], <<>>, <<>>)

(* A file is described by a mesh and the places where it departs from the  *)
(* layout of the format: a wrong magic tag or header field, an index count *)
(* that is not a multiple of 3 (one more index present), index ji out of   *)
(* range, a wrong reserved field, shader id, length or name in submesh js, *)
(* a wrong trailer, bytes after the trailer, or a cut: only the first      *)
(* `cut` bytes are there (all of them in a file that is not cut).          *)
DefectKinds == {"magic", "h0", "h1", "h3", "h4", "ic", "idx", "h2", "shader",
                "len", "h6", "utf8", "h8", "tail", "junk"}
SubDefects == {"h2", "shader", "len", "h6", "utf8", "h8"}
NoSrc == [none |-> TRUE]

RawSubMesh(sm, d) ==
  LET nb == IF "utf8" \in d THEN <<255>> ELSE Utf8Encode(sm.name)
  IN U32Pack(sm.index_buffer_start)
       \o U32Pack(IF "len" \in d THEN 2 ELSE sm.index_buffer_length)
       \o U16Pack(IF "h2" \in d THEN 1 ELSE 0)
       \o U16Pack(IF "shader" \in d THEN 4 ELSE sm.shader_id)
       \o Vec3ToWriter(sm.bounds_min) \o Vec3ToWriter(sm.bounds_max)
       \o U16Pack(IF "h6" \in d THEN 1 ELSE 0)
       \o U16Pack(Len(nb)) \o nb
       \o Vec3ToWriter(IF "h8" \in d THEN Vec3(F2, F1, F1) ELSE Vec3One)

(* a vertex record of the format: position, colour, normal (12 + 4 + 12) *)
RawVertex(v) ==
  F32Pack(v.position.x) \o F32Pack(v.position.y) \o F32Pack(v.position.z)
    \o <<v.color.r, v.color.g, v.color.b, v.color.a>>
    \o F32Pack(v.normal.x) \o F32Pack(v.normal.y) \o F32Pack(v.normal.z)

SrcIndices(s) ==
  [j \in 1..Len(s.base.indices) |->
     IF "idx" \in s.defs /\ j = s.ji THEN Len(s.base.vertices) ELSE s.base.indices[j]]
    \o (IF "ic" \in s.defs THEN <<0>> ELSE <<>>)

FullLayout(s) ==
  LET m == s.base
      d == s.defs
      idx == SrcIndices(s)
  IN (IF "magic" \in d THEN <<109, 101, 115, 120>> ELSE MagicMesh)
       \o U16Pack(IF "h0" \in d THEN 8 ELSE 7)
       \o U16Pack(IF "h1" \in d THEN 2 ELSE 1)
       \o U16Pack(Len(m.vertices))
       \o U16Pack(IF "h3" \in d THEN 20 ELSE 19)
       \o U16Pack(IF "h4" \in d THEN 1 ELSE 0)
       \o Flatten([i \in 1..Len(m.vertices) |-> RawVertex(m.vertices[i])])
       \o U32Pack(Len(idx))
       \o Flatten([j \in 1..Len(idx) |-> U16Pack(idx[j])])
       \o U16Pack(Len(m.submeshes))
       \o Flatten([j \in 1..Len(m.submeshes) |->
                     RawSubMesh(m.submeshes[j],
                                IF j = s.js THEN d \cap SubDefects ELSE {})])
       \o U16Pack(IF "tail" \in d THEN 1 ELSE 0)
       \o (IF "junk" \in d THEN <<0, 0>> ELSE <<>>)

Layout(s) == SubSeq(FullLayout(s), 1, s.cut)

Whole(s) == [s EXCEPT !.cut = Len(FullLayout(s))]
IsCut(s) == s.cut < Len(FullLayout(s))

Applicable(m, d) ==
  /\ ("idx" \in d => Len(m.indices) > 0)
  /\ (d \cap SubDefects # {} => Len(m.submeshes) > 0)

Clean(m) == Whole([base |-> m, defs |-> {}, ji |-> 1, js |-> 1, cut |-> 0])

Sources ==
  {Whole([base |-> m, defs |-> {a, b} \ {"none"}, ji |-> ji, js |-> js, cut |-> 0]) :
     m \in Bases, a \in DefectKinds \cup {"none"}, b \in DefectKinds \cup {"none"},
     ji \in 1..(3 * MaxTris), js \in 1..MaxSubs}

WellFormedSource(s) ==
  /\ Applicable(s.base, s.defs)
  /\ (IF "idx" \in s.defs THEN s.ji <= Len(s.base.indices) ELSE s.ji = 1)
  /\ (IF s.defs \cap SubDefects # {} THEN s.js <= Len(s.base.submeshes) ELSE s.js = 1)

(* ------------------------------- state -------------------------------- *)
VARIABLES
  impl,           \* the module whose Mesh / SubMesh classes are in use
  m0,             \* the Mesh value handed to to_writer first, or NoValue
  src,            \* the description of the file handed to from_reader first, or NoSrc
  stage,          \* "write0", "parse1", "write1", "parse2", "write2"
  buf,            \* the bytes behind the reader
  pos,            \* the reader's cursor (reader.tell())
  strict,         \* the strict argument of from_reader
  pc,             \* where Mesh.from_reader is
  hdr,            \* h0, h1, vertex_count, h3, h4 as unpacked
  vertex_count,   \* locals of Mesh.from_reader
  index_count,
  submesh_count,
  vertices,
  indices,
  submeshes,
  result,         \* the Mesh returned, or NoValue
  err,            \* the exception raised: "none", "ValueError", "struct.error", "UnicodeDecodeError"
  site,           \* the field whose read or check raised it
  log,            \* the reads made so far, each <<field, offset>>
  wval,           \* the Mesh whose to_writer is running
  wbuf,           \* the bytes written so far
  wpc,            \* where Mesh.to_writer is
  wi,             \* iterations done of the writer's current loop
  first,          \* the outcome of the strict parse, kept for the second parse
  out1,           \* the bytes written from the strict parse's result
  phys,           \* the PhysicsMesh codec: its value, file, reader and writer
  tree,           \* validate_connected_tree: its argument, locals and return value
  anim,           \* load_anim: the file, Anim.from_reader's locals, the objects made
  rbm,            \* _resolve_bone_matrices: its arguments, locals and return value
  save,           \* save_mesh and the attributes of the class _PolygonOptimizer
  conv,           \* to_blender_vec / from_blender_vec: the argument and the values returned
  bld,            \* an _ObjectMaterialBuilder and the add_submesh calls made on it
  pio             \* save_phys and load_phys: the objects given and the objects made

ext == <<tree, anim, rbm, save, conv, bld, pio>>
env == <<impl, m0, src, phys, ext>>
rd == <<buf, pos, strict, pc, hdr, vertex_count, index_count, submesh_count,
        vertices, indices, submeshes, result, err, site, log>>
locals == <<hdr, vertex_count, index_count, submesh_count, vertices, indices, submeshes>>
wr == <<wval, wbuf, wpc, wi>>
keep == <<first, out1>>
vars == <<env, stage, rd, wr, keep>>

NoHdr == <<>>

ReaderIdle ==
  /\ pos = 0 /\ hdr = NoHdr
  /\ vertex_count = 0 /\ index_count = 0 /\ submesh_count = 0
  /\ vertices = <<>> /\ indices = <<>> /\ submeshes = <<>>
  /\ result = NoValue /\ err = "none" /\ site = "" /\ log = <<>>

PhysIdle ==
  [stage |-> "idle", m0 |-> NoValue, strict |-> TRUE, buf |-> <<>>, pos |-> 0,
   pc |-> "idle", sub_phys_count |-> 0, sub_phys_meshes |-> <<>>,
   result |-> NoValue, err |-> "none", site |-> "",
   wval |-> NoValue, wbuf |-> <<>>, wpc |-> "idle", wi |-> 0, werr |-> "none"]

(* validate_connected_tree is not running *)
TreeIdle ==
  [pc |-> "idle", nodes |-> <<>>, root_id |-> -1, i |-> 0, edge_count |-> 0,
   visited |-> {}, stack |-> <<>>, order |-> <<>>, ret |-> NoValue]

(* load_anim is not running *)
AnimIdle ==
  [pc |-> "idle", src |-> NoValue, buf |-> <<>>, pos |-> 0, strict |-> TRUE,
   n_meshes |-> 0, meshes |-> <<>>, n_bones |-> 0, bones |-> <<>>,
   n_poses |-> 0, poses |-> <<>>, n_animations |-> 0, animations |-> <<>>,
   n_data3s |-> 0, data3s |-> <<>>, result |-> NoValue, err |-> "none", site |-> "",
   mesh_obj |-> NoValue, arm_obj |-> FALSE, edit_bones |-> <<>>, vertex_groups |-> <<>>]

(* _resolve_bone_matrices is not running *)
RbmIdle ==
  [pc |-> "idle", bone_parent_indices |-> <<>>, local_matrices |-> <<>>, q |-> <<>>,
   resolved |-> <<>>, declared |-> NoValue, first |-> NoValue]

(* save_mesh is not running and has not run: the three lists of the class *)
(* body of _PolygonOptimizer are empty                                     *)
SaveIdle ==
  [pc |-> "idle", objects |-> <<>>, name_mode |-> "NONE",
   submesh_triangles |-> <<>>, submesh_names |-> <<>>,
   vertices |-> <<>>, indices |-> <<>>, vertex_index_map |-> <<>>,
   shader_id |-> 0, submeshes |-> <<>>, calls |-> <<>>, added |-> <<>>]

(* no conversion made, no builder made, save_phys and load_phys not called *)
ConvIdle == [pc |-> "idle", arg |-> NoValue, out |-> NoValue, back |-> NoValue]
BldIdle == [pc |-> "idle", builder |-> NoValue, before |-> NoValue, call |-> NoValue,
            err |-> "none", calls |-> <<>>]
PioIdle == [pc |-> "idle", objects |-> <<>>, divide_grid |-> FALSE, name |-> "",
            submesh_triangles |-> <<>>, made |-> <<>>]
MoreIdle == conv = ConvIdle /\ bld = BldIdle /\ pio = PioIdle

ExtIdle ==
  tree = TreeIdle /\ anim = AnimIdle /\ rbm = RbmIdle /\ save = SaveIdle /\ MoreIdle

WriterIdle == wval = NoValue /\ wbuf = <<>> /\ wpc = "idle" /\ wi = 0

(* save: a Mesh value is about to be written (export, save_mesh) *)
InitValue ==
  /\ m0 \in Bases \cup {BigMesh}
  /\ src = NoSrc
  /\ stage = "write0"
  /\ buf = <<>> /\ pc = "idle" /\ strict = TRUE /\ ReaderIdle
  /\ wval = m0 /\ wbuf = <<>> /\ wpc = "header" /\ wi = 0

(* load: a file is about to be read (import, load_mesh) *)
InitBytes ==
  /\ m0 = NoValue
  /\ \/ src \in {s \in Sources : WellFormedSource(s)}
     \/ \E m \in Bases \cup {BigMesh} :
          \E c \in 0..Len(FullLayout(Clean(m))) : src = [Clean(m) EXCEPT !.cut = c]
  /\ stage = "parse1"
  /\ buf = Layout(src) /\ pc = "magic" /\ strict = TRUE /\ ReaderIdle
  /\ WriterIdle

Init ==
  /\ impl \in Impls
  /\ first = NoValue /\ out1 = NoValue
  /\ phys = PhysIdle
  /\ ExtIdle
  /\ (InitValue \/ InitBytes)

(* ------------------------- Mesh.from_reader --------------------------- *)
(* variant: the check of h3 left out *)
HeaderViolationSkipsH3(h0, h1, h3, h4) ==
  IF h0 # 7 THEN "h0"
  ELSE IF h1 # 1 THEN "h1"
  ELSE IF h4 # 0 THEN "h4"
  ELSE ""

(* the strict checks of the header, in the order the code makes them: the  *)
(* field whose check raises, or "" *)
HeaderViolation(h0, h1, h3, h4) ==
  IF h0 # 7 THEN "h0"
  ELSE IF h1 # 1 THEN "h1"
  ELSE IF h3 # 19 THEN "h3"
  ELSE IF h4 # 0 THEN "h4"
  ELSE ""

(* variant: 0 <= v <= vertex_count *)
IndexInRangeInclusive(v, vc) == 0 <= v /\ v <= vc

(* 0 <= v < vertex_count *)
IndexInRange(v, vc) == 0 <= v /\ v < vc

(* index_count % 3 != 0 *)
IndexCountViolation(ic) == U32Mod3(ic) # 0

Parsing == stage \in {"parse1", "parse2"}

(* raise: the call ends with exception e, raised at field st, cursor at p *)
Raise(e, st, p) ==
  /\ pc' = "error" /\ err' = e /\ site' = st /\ pos' = p
  /\ result' = NoValue

(* if strict and reader.read(4) != b'mesh': raise ValueError *)
ReadMagic ==
  /\ Parsing /\ pc = "magic"
  /\ IF strict
     THEN /\ log' = Append(log, <<"magic", pos>>)
          /\ IF Read(buf, pos, 4) # MagicMesh
             THEN Raise("ValueError", "magic", pos + Len(Read(buf, pos, 4)))
             ELSE /\ pos' = pos + 4 /\ pc' = "header"
                  /\ UNCHANGED <<result, err, site>>
     ELSE /\ pc' = "header"
          /\ UNCHANGED <<pos, result, err, site, log>>
  /\ UNCHANGED <<env, stage, buf, strict, locals, wr, keep>>

(* h0, h1, vertex_count, h3, h4 = _read_unpack(reader, '<HHHHH') and checks *)
ReadHeader ==
  /\ Parsing /\ pc = "header"
  /\ log' = Append(log, <<"header", pos>>)
  /\ IF ~Avail(buf, pos, 10)
     THEN /\ Raise("struct.error", "header", Len(buf))
          /\ UNCHANGED <<hdr, vertex_count>>
     ELSE LET h0 == U16Unpack(Read(buf, pos, 2))
              h1 == U16Unpack(Read(buf, pos + 2, 2))
              vc == U16Unpack(Read(buf, pos + 4, 2))
              h3 == U16Unpack(Read(buf, pos + 6, 2))
              h4 == U16Unpack(Read(buf, pos + 8, 2))
          IN /\ hdr' = <<h0, h1, vc, h3, h4>>
             /\ vertex_count' = vc
             /\ IF strict /\ HeaderViolation(h0, h1, h3, h4) # ""
                THEN Raise("ValueError", HeaderViolation(h0, h1, h3, h4), pos + 10)
                ELSE /\ pos' = pos + 10 /\ pc' = "vertices"
                     /\ UNCHANGED <<result, err, site>>
  /\ UNCHANGED <<env, stage, buf, strict, index_count, submesh_count,
                 vertices, indices, submeshes, wr, keep>>

(* the loop of ReadVertex with the record put in front of the list *)
ReadVertexPrepend ==
  /\ Parsing /\ pc = "vertices" /\ Len(vertices) < vertex_count
  /\ log' = Append(log, <<"vertex", pos>>)
  /\ IF ~Avail(buf, pos, VertexSize)
     THEN /\ Raise("struct.error", "vertex", Len(buf))
          /\ UNCHANGED vertices
     ELSE /\ vertices' = <<MeshVertexFromReader(Read(buf, pos, VertexSize))>> \o vertices
          /\ pos' = pos + VertexSize
          /\ UNCHANGED <<pc, result, err, site>>
  /\ UNCHANGED <<env, stage, buf, strict, hdr, vertex_count, index_count,
                 submesh_count, indices, submeshes, wr, keep>>

(* for _ in range(vertex_count): vertices.append(MeshVertex.from_reader(reader)) *)
ReadVertex ==
  /\ Parsing /\ pc = "vertices" /\ Len(vertices) < vertex_count
  /\ log' = Append(log, <<"vertex", pos>>)
  /\ IF ~Avail(buf, pos, VertexSize)
     THEN /\ Raise("struct.error", "vertex", Len(buf))
          /\ UNCHANGED vertices
     ELSE /\ vertices' = Append(vertices, MeshVertexFromReader(Read(buf, pos, VertexSize)))
          /\ pos' = pos + VertexSize
          /\ UNCHANGED <<pc, result, err, site>>
  /\ UNCHANGED <<env, stage, buf, strict, hdr, vertex_count, index_count,
                 submesh_count, indices, submeshes, wr, keep>>

(* index_count = _read_uint(reader); strict: index_count % 3 == 0 *)
ReadIndexCount ==
  /\ Parsing /\ pc = "vertices" /\ Len(vertices) = vertex_count
  /\ log' = Append(log, <<"index_count", pos>>)
  /\ IF ~Avail(buf, pos, 4)
     THEN /\ Raise("struct.error", "index_count", Len(buf))
          /\ UNCHANGED index_count
     ELSE /\ index_count' = U32Unpack(Read(buf, pos, 4))
          /\ IF strict /\ IndexCountViolation(index_count')
             THEN Raise("ValueError", "index_count", pos + 4)
             ELSE /\ pos' = pos + 4 /\ pc' = "indices"
                  /\ UNCHANGED <<result, err, site>>
  /\ UNCHANGED <<env, stage, buf, strict, hdr, vertex_count, submesh_count,
                 vertices, indices, submeshes, wr, keep>>

(* v = _read_ushort(reader); strict: 0 <= v < vertex_count; indices.append(v) *)
ReadIndex ==
  /\ Parsing /\ pc = "indices" /\ U32Below(Len(indices), index_count)
  /\ log' = Append(log, <<"index", pos>>)
  /\ IF ~Avail(buf, pos, 2)
     THEN /\ Raise("struct.error", "index", Len(buf))
          /\ UNCHANGED indices
     ELSE LET v == U16Unpack(Read(buf, pos, 2))
          IN IF strict /\ ~IndexInRange(v, vertex_count)
             THEN /\ Raise("ValueError", "index", pos + 2)
                  /\ UNCHANGED indices
             ELSE /\ indices' = Append(indices, v)
                  /\ pos' = pos + 2
                  /\ UNCHANGED <<pc, result, err, site>>
  /\ UNCHANGED <<env, stage, buf, strict, hdr, vertex_count, index_count,
                 submesh_count, vertices, submeshes, wr, keep>>

(* submesh_count = _read_ushort(reader) *)
ReadSubmeshCount ==
  /\ Parsing /\ pc = "indices" /\ Len(indices) = index_count
  /\ log' = Append(log, <<"submesh_count", pos>>)
  /\ IF ~Avail(buf, pos, 2)
     THEN /\ Raise("struct.error", "submesh_count", Len(buf))
          /\ UNCHANGED submesh_count
     ELSE /\ submesh_count' = U16Unpack(Read(buf, pos, 2))
          /\ pos' = pos + 2 /\ pc' = "submeshes"
          /\ UNCHANGED <<result, err, site>>
  /\ UNCHANGED <<env, stage, buf, strict, hdr, vertex_count, index_count,
                 vertices, indices, submeshes, wr, keep>>

(* submeshes.append(SubMesh.from_reader(reader, strict=strict)) *)
ReadSubMesh ==
  /\ Parsing /\ pc = "submeshes" /\ Len(submeshes) < submesh_count
  /\ LET r == SubMeshFromReader(buf, pos, strict, impl)
     IN /\ log' = log \o r.log
        /\ IF r.err # "none"
           THEN /\ Raise(r.err, r.site, r.pos)
                /\ UNCHANGED submeshes
           ELSE /\ submeshes' = Append(submeshes, r.value)
                /\ pos' = r.pos
                /\ UNCHANGED <<pc, result, err, site>>
  /\ UNCHANGED <<env, stage, buf, strict, hdr, vertex_count, index_count,
                 submesh_count, vertices, indices, wr, keep>>

(* tail = _read_ushort(reader); strict: tail == 0; return Mesh(...) *)
ReadTail ==
  /\ Parsing /\ pc = "submeshes" /\ Len(submeshes) = submesh_count
  /\ log' = Append(log, <<"tail", pos>>)
  /\ IF ~Avail(buf, pos, 2)
     THEN Raise("struct.error", "tail", Len(buf))
     ELSE IF strict /\ U16Unpack(Read(buf, pos, 2)) # 0
          THEN Raise("ValueError", "tail", pos + 2)
          ELSE /\ pos' = pos + 2 /\ pc' = "done"
               /\ result' = MeshValue(vertices, indices, submeshes)
               /\ UNCHANGED <<err, site>>
  /\ UNCHANGED <<env, stage, buf, strict, locals, wr, keep>>

(* -------------------------- Mesh.to_writer ---------------------------- *)
Writing == stage \in {"write0", "write1", "write2"}

(* writer.write(b'mesh'); _pack_write(writer, '<HHHHH', 7, 1, len(self.vertices), 19, 0) *)
WriteHeader ==
  /\ Writing /\ wpc = "header"
  /\ wbuf' = wbuf \o MeshHeaderToWriter(wval)
  /\ wpc' = "vertices" /\ wi' = 0
  /\ UNCHANGED <<env, stage, rd, wval, keep>>

(* for vertex in self.vertices: vertex.to_writer(writer) *)
WriteVertex ==
  /\ Writing /\ wpc = "vertices" /\ wi < Len(wval.vertices)
  /\ wbuf' = wbuf \o MeshVertexToWriter(wval.vertices[wi + 1])
  /\ wi' = wi + 1
  /\ UNCHANGED <<env, stage, rd, wval, wpc, keep>>

(* _pack_write(writer, '<I', len(self.indices)) *)
WriteIndexCount ==
  /\ Writing /\ wpc = "vertices" /\ wi = Len(wval.vertices)
  /\ wbuf' = wbuf \o U32Pack(Len(wval.indices))
  /\ wpc' = "indices" /\ wi' = 0
  /\ UNCHANGED <<env, stage, rd, wval, keep>>

(* for v in self.indices: _pack_write(writer, '<H', v) *)
WriteIndex ==
  /\ Writing /\ wpc = "indices" /\ wi < Len(wval.indices)
  /\ wbuf' = wbuf \o U16Pack(wval.indices[wi + 1])
  /\ wi' = wi + 1
  /\ UNCHANGED <<env, stage, rd, wval, wpc, keep>>

(* _pack_write(writer, '<H', len(self.submeshes)) *)
WriteSubmeshCount ==
  /\ Writing /\ wpc = "indices" /\ wi = Len(wval.indices)
  /\ wbuf' = wbuf \o U16Pack(Len(wval.submeshes))
  /\ wpc' = "submeshes" /\ wi' = 0
  /\ UNCHANGED <<env, stage, rd, wval, keep>>

(* for submesh in self.submeshes: submesh.to_writer(writer) *)
WriteSubMesh ==
  /\ Writing /\ wpc = "submeshes" /\ wi < Len(wval.submeshes)
  /\ wbuf' = wbuf \o SubMeshToWriter(wval.submeshes[wi + 1])
  /\ wi' = wi + 1
  /\ UNCHANGED <<env, stage, rd, wval, wpc, keep>>

(* _pack_write(writer, '<H', 0) *)
WriteTail ==
  /\ Writing /\ wpc = "submeshes" /\ wi = Len(wval.submeshes)
  /\ wbuf' = wbuf \o U16Pack(0)
  /\ wpc' = "done"
  /\ UNCHANGED <<env, stage, rd, wval, wi, keep>>

(* ---------------------- the calls around the codec -------------------- *)
ResetReader(s) ==
  /\ pos' = 0 /\ strict' = s /\ pc' = "magic" /\ hdr' = NoHdr
  /\ vertex_count' = 0 /\ index_count' = 0 /\ submesh_count' = 0
  /\ vertices' = <<>> /\ indices' = <<>> /\ submeshes' = <<>>
  /\ result' = NoValue /\ err' = "none" /\ site' = "" /\ log' = <<>>

Outcome ==
  [result |-> result, err |-> err, site |-> site, pos |-> pos, log |-> log, hdr |-> hdr]

(* the file just written is opened and read with strict_mode on *)
Open ==
  /\ stage = "write0" /\ wpc = "done"
  /\ stage' = "parse1"
  /\ buf' = wbuf
  /\ ResetReader(TRUE)
  /\ UNCHANGED <<env, wr, keep>>

(* the Mesh a parse returned is written to a new file *)
Serialize ==
  /\ Parsing /\ pc = "done"
  /\ stage' = (IF stage = "parse1" THEN "write1" ELSE "write2")
  /\ wval' = result /\ wbuf' = <<>> /\ wpc' = "header" /\ wi' = 0
  /\ UNCHANGED <<env, rd, keep>>

(* the same file is read again with strict_mode off *)
Reopen ==
  /\ \/ stage = "parse1" /\ pc = "error"
     \/ stage = "write1" /\ wpc = "done"
  /\ stage' = "parse2"
  /\ first' = Outcome
  /\ out1' = (IF stage = "write1" THEN wbuf ELSE NoValue)
  /\ ResetReader(FALSE)
  /\ UNCHANGED <<env, buf, wr>>

Next ==
  \/ ReadMagic \/ ReadHeader \/ ReadVertex \/ ReadIndexCount \/ ReadIndex
  \/ ReadSubmeshCount \/ ReadSubMesh \/ ReadTail
  \/ WriteHeader \/ WriteVertex \/ WriteIndexCount \/ WriteIndex
  \/ WriteSubmeshCount \/ WriteSubMesh \/ WriteTail
  \/ Open \/ Serialize \/ Reopen

Spec == Init /\ [][Next]_vars

(* Mesh.from_reader of either module called on a buffer, with strict on or *)
(* off: a file of the layout or with one departure from it, whole or cut,  *)
(* or the same bytes without the magic tag                                 *)
InitParsers ==
  /\ impl \in Impls
  /\ first = NoValue /\ out1 = NoValue
  /\ phys = PhysIdle
  /\ ExtIdle
  /\ m0 = NoValue
  /\ \/ src \in {s \in Sources : WellFormedSource(s) /\ Cardinality(s.defs) <= 1}
     \/ \E c \in 0..Len(FullLayout(Clean(BaseMesh(1, 3, 1)))) :
          src = [Clean(BaseMesh(1, 3, 1)) EXCEPT !.cut = c]
  /\ stage = "parse1"
  /\ \E bare \in BOOLEAN :
       buf = IF bare THEN SubSeq(Layout(src), 5, Len(Layout(src))) ELSE Layout(src)
  /\ strict \in BOOLEAN
  /\ pc = "magic" /\ ReaderIdle
  /\ WriterIdle

NextParsers ==
  \/ ReadMagic \/ ReadHeader \/ ReadVertex \/ ReadIndexCount \/ ReadIndex
  \/ ReadSubmeshCount \/ ReadSubMesh \/ ReadTail

SpecParsers == InitParsers /\ [][NextParsers]_vars

(* ----------------------------- PhysicsMesh ---------------------------- *)
PyInt(n) == [t |-> "int", v |-> <<n>>]
PyTuple(xs) == [t |-> "tuple", v |-> xs]

SubPhysMesh(vs, is) == [vertices |-> vs, indices |-> is]
PhysicsMeshValue(sps) == [sub_phys_meshes |-> sps]

(* the values the model draws physics meshes from *)
PhysSubs ==
  {SubPhysMesh([i \in 1..n |-> IF i % 2 = 1 THEN Vec3(F1, F2, F0) ELSE Vec3(F0, F0, F1)],
               [j \in 1..k |-> PyInt(j + 4)]) :
     n \in 0..MaxPhysVerts, k \in 0..MaxPhysIdx}

RECURSIVE SeqsUpTo(_, _)
SeqsUpTo(S, n) ==
  IF n = 0 THEN {<<>>}
  ELSE SeqsUpTo(S, n - 1) \cup {Append(q, x) : q \in SeqsUpTo(S, n - 1), x \in S}

PhysValues == {PhysicsMeshValue(sps) : sps \in SeqsUpTo(PhysSubs, MaxPhysSubs)}

(* the bytes SubPhysMesh.to_writer writes before it returns or raises:     *)
(* _pack_write(writer, '<I', index) raises struct.error when index is not  *)
(* an int                                                                  *)
RECURSIVE PhysIndicesToWriter(_)
PhysIndicesToWriter(is) ==
  IF is = <<>> THEN [err |-> "none", bytes |-> <<>>]
  ELSE IF Head(is).t # "int" THEN [err |-> "struct.error", bytes |-> <<>>]
  ELSE LET r == PhysIndicesToWriter(Tail(is))
       IN [err |-> r.err, bytes |-> U32Pack(Head(is).v[1]) \o r.bytes]

SubPhysMeshToWriter(sp) ==
  LET r == PhysIndicesToWriter(sp.indices)
  IN [err |-> r.err,
      bytes |-> U16Pack(Len(sp.vertices))
                  \o Flatten([i \in 1..Len(sp.vertices) |-> Vec3ToWriter(sp.vertices[i])])
                  \o U16Pack(Len(sp.indices)) \o r.bytes]

(* SubPhysMesh.from_reader(reader) with the reader at cursor p:            *)
(* indices.append(_read_unpack(reader, '<I')) appends the tuple unpacked   *)
SubPhysMeshFromReader(b, p) ==
  IF ~Avail(b, p, 2) THEN SubFail("struct.error", "vertex_count", Len(b), <<>>)
  ELSE
  LET nv == U16Unpack(Read(b, p, 2))
      pv == p + 2
      pi == pv + 12 * nv
  IN IF ~Avail(b, pv, 12 * nv)
     THEN SubFail("struct.error", "vertex", Len(b), <<>>)
     ELSE IF ~Avail(b, pi, 2) THEN SubFail("struct.error", "index_count", Len(b), <<>>)
     ELSE
     LET ni == U16Unpack(Read(b, pi, 2))
     IN IF ~Avail(b, pi + 2, 4 * ni)
        THEN SubFail("struct.error", "index", Len(b), <<>>)
        ELSE [err |-> "none", site |-> "", pos |-> pi + 2 + 4 * ni,
              value |-> SubPhysMesh(
                 [i \in 1..nv |-> Vec3FromReader(Read(b, pv + 12 * (i - 1), 12))],
                 [j \in 1..ni |->
                    PyTuple(<<U32Unpack(Read(b, pi + 2 + 4 * (j - 1), 4))>>)]),
              log |-> <<>>]

MeshIdle ==
  /\ m0 = NoValue /\ src = NoSrc /\ stage = "idle"
  /\ buf = <<>> /\ pc = "idle" /\ strict = TRUE /\ ReaderIdle /\ WriterIdle
  /\ first = NoValue /\ out1 = NoValue

(* a PhysicsMesh value is about to be written (export, save_phys) and the  *)
(* file read back (import, load_phys) with strict_mode on or off           *)
InitPhys ==
  /\ impl \in Impls
  /\ MeshIdle
  /\ ExtIdle
  /\ \E v \in PhysValues, s \in BOOLEAN :
       phys = [PhysIdle EXCEPT !.stage = "write0", !.m0 = v, !.strict = s,
                               !.wval = v, !.wpc = "header"]

mesh == <<impl, m0, src, stage, rd, wr, keep, ext>>

PhysWriting == phys.stage \in {"write0", "write1"}

(* writer.write(b'phys'); _pack_write(writer, '<HH', 2, len(self.sub_phys_meshes)) *)
PhysWriteHeader ==
  /\ PhysWriting /\ phys.wpc = "header"
  /\ phys' = [phys EXCEPT
       !.wbuf = MagicPhys \o U16Pack(2) \o U16Pack(Len(phys.wval.sub_phys_meshes)),
       !.wpc = IF Len(phys.wval.sub_phys_meshes) = 0 THEN "done" ELSE "subs",
       !.wi = 0]
  /\ UNCHANGED mesh

(* for sub_phys in self.sub_phys_meshes: sub_phys.to_writer(writer) *)
PhysWriteSub ==
  /\ PhysWriting /\ phys.wpc = "subs" /\ phys.wi < Len(phys.wval.sub_phys_meshes)
  /\ LET r == SubPhysMeshToWriter(phys.wval.sub_phys_meshes[phys.wi + 1])
     IN phys' = [phys EXCEPT
          !.wbuf = @ \o r.bytes,
          !.werr = r.err,
          !.wi = @ + 1,
          !.wpc = IF r.err # "none" THEN "error"
                  ELSE IF phys.wi + 1 = Len(phys.wval.sub_phys_meshes) THEN "done"
                  ELSE "subs"]
  /\ UNCHANGED mesh

(* the file just written is opened and read *)
PhysOpen ==
  /\ phys.stage = "write0" /\ phys.wpc = "done"
  /\ phys' = [phys EXCEPT !.stage = "parse1", !.buf = phys.wbuf, !.pos = 0,
                          !.pc = "magic"]
  /\ UNCHANGED mesh

(* if strict and reader.read(4) != b'phys': raise ValueError *)
PhysReadMagic ==
  /\ phys.stage = "parse1" /\ phys.pc = "magic"
  /\ phys' =
       IF ~phys.strict THEN [phys EXCEPT !.pc = "header"]
       ELSE IF Read(phys.buf, phys.pos, 4) # MagicPhys
            THEN [phys EXCEPT !.pc = "error", !.err = "ValueError", !.site = "magic",
                              !.pos = @ + Len(Read(phys.buf, phys.pos, 4))]
            ELSE [phys EXCEPT !.pc = "header", !.pos = @ + 4]
  /\ UNCHANGED mesh

(* h0, sub_phys_count = _read_unpack(reader, '<HH'); strict: h0 == 2 *)
PhysReadHeader ==
  /\ phys.stage = "parse1" /\ phys.pc = "header"
  /\ phys' =
       IF ~Avail(phys.buf, phys.pos, 4)
       THEN [phys EXCEPT !.pc = "error", !.err = "struct.error", !.site = "header",
                         !.pos = Len(phys.buf)]
       ELSE LET h0 == U16Unpack(Read(phys.buf, phys.pos, 2))
                n == U16Unpack(Read(phys.buf, phys.pos + 2, 2))
            IN IF phys.strict /\ h0 # 2
               THEN [phys EXCEPT !.pc = "error", !.err = "ValueError", !.site = "h0",
                                 !.pos = @ + 4, !.sub_phys_count = n]
               ELSE [phys EXCEPT !.pos = @ + 4, !.sub_phys_count = n,
                                 !.pc = IF n = 0 THEN "done" ELSE "subs",
                                 !.result = IF n = 0 THEN PhysicsMeshValue(<<>>)
                                            ELSE NoValue]
  /\ UNCHANGED mesh

(* sub_phys_meshes.append(SubPhysMesh.from_reader(reader)); after the last *)
(* one, return PhysicsMesh(sub_phys_meshes)                                *)
PhysReadSub ==
  /\ phys.stage = "parse1" /\ phys.pc = "subs"
  /\ Len(phys.sub_phys_meshes) < phys.sub_phys_count
  /\ LET r == SubPhysMeshFromReader(phys.buf, phys.pos)
         last == Len(phys.sub_phys_meshes) + 1 = phys.sub_phys_count
     IN phys' =
          IF r.err # "none"
          THEN [phys EXCEPT !.pc = "error", !.err = r.err, !.site = r.site, !.pos = r.pos]
          ELSE [phys EXCEPT !.pos = r.pos,
                            !.sub_phys_meshes = Append(@, r.value),
                            !.pc = IF last THEN "done" ELSE "subs",
                            !.result = IF last
                                       THEN PhysicsMeshValue(Append(phys.sub_phys_meshes, r.value))
                                       ELSE NoValue]
  /\ UNCHANGED mesh

(* the PhysicsMesh the parse returned is written to a new file *)
PhysSerialize ==
  /\ phys.stage = "parse1" /\ phys.pc = "done"
  /\ phys' = [phys EXCEPT !.stage = "write1", !.wval = phys.result, !.wbuf = <<>>,
                          !.wpc = "header", !.wi = 0]
  /\ UNCHANGED mesh

NextPhys ==
  \/ PhysWriteHeader \/ PhysWriteSub \/ PhysOpen
  \/ PhysReadMagic \/ PhysReadHeader \/ PhysReadSub \/ PhysSerialize

SpecPhys == InitPhys /\ [][NextPhys]_vars

(* ----------------------- validate_connected_tree ---------------------- *)
(* A bone as validate_connected_tree sees it: nodes[i] = (parent_index,    *)
(* child_indices).  load_anim builds the dict with enumerate, so the keys  *)
(* are 0 .. n-1 in order; bone id i is element i + 1 of the sequence.      *)
BoneLinks(p, cs) == [parent_index |-> p, child_indices |-> cs]

NodeIds(nodes) == 0..(Len(nodes) - 1)
Node(nodes, id) == nodes[id + 1]

(* all ways to give b bones child lists of at most `left` references in    *)
(* all, each reference a bone id or n, an index that is no bone            *)
RECURSIVE ChildListChoices(_, _, _)
ChildListChoices(n, b, left) ==
  IF b = 0 THEN {<<>>}
  ELSE UNION {{<<l>> \o rest : rest \in ChildListChoices(n, b - 1, left - Len(l))} :
                l \in SeqsUpTo(0..n, left)}

(* the bone set of the positive example: parents [-1, 0, 0, 1] *)
ExampleBones ==
  <<BoneLinks(-1, <<1, 2>>), BoneLinks(0, <<3>>), BoneLinks(0, <<>>), BoneLinks(1, <<>>)>>

(* the call validate_connected_tree(nodes) *)
TreeCall(nodes) == [TreeIdle EXCEPT !.pc = "roots", !.nodes = nodes]

TreeReturn(t, ok, msg) == [t EXCEPT !.pc = "done", !.ret = <<ok, msg>>]

(* the validator is called with a bone set: any set of at most MaxBones    *)
(* bones with parents in -1 .. n-1 and at most MaxRefs child references,   *)
(* or the bone set of the example                                          *)
InitTree ==
  /\ impl = "data_struct"
  /\ MeshIdle
  /\ phys = PhysIdle
  /\ anim = AnimIdle /\ rbm = RbmIdle /\ save = SaveIdle /\ MoreIdle
  /\ \/ tree = TreeCall(ExampleBones)
     \/ \E n \in 0..MaxBones :
          \E cs \in ChildListChoices(n, n, MaxRefs) :
            \E ps \in [1..n -> -1..(n - 1)] :
              tree = TreeCall([i \in 1..n |-> BoneLinks(ps[i], cs[i])])

codecs == <<impl, m0, src, stage, rd, wr, keep, phys, conv, bld, pio>>
notTree == <<codecs, anim, rbm, save>>
notAnim == <<codecs, tree, rbm, save>>
notRbm == <<codecs, tree, anim, save>>
notSave == <<codecs, tree, anim, rbm>>

(* root_candidates = [...]; if len(root_candidates) != 1: return *)
TreeFindRoot ==
  /\ tree.pc = "roots"
  /\ LET root_candidates == {id \in NodeIds(tree.nodes) :
                               Node(tree.nodes, id).parent_index = -1}
     IN tree' = IF Cardinality(root_candidates) # 1
                THEN TreeReturn(tree, FALSE, "multiple roots")
                ELSE [tree EXCEPT !.pc = "edges",
                                  !.root_id = CHOOSE id \in root_candidates : TRUE]
  /\ UNCHANGED notTree

(* the inner loop without the test of the child's parent_index *)
RECURSIVE ChildFailureNoParentCheck(_, _, _, _)
ChildFailureNoParentCheck(nodes, node_id, cs, k) ==
  IF k > Len(cs) THEN ""
  ELSE IF cs[k] \notin NodeIds(nodes) THEN "reference to nonexistent node"
  ELSE ChildFailureNoParentCheck(nodes, node_id, cs, k + 1)

(* the inner loop with one message for both failures *)
RECURSIVE ChildFailureOneMessage(_, _, _, _)
ChildFailureOneMessage(nodes, node_id, cs, k) ==
  IF k > Len(cs) THEN ""
  ELSE IF cs[k] \notin NodeIds(nodes) THEN "inconsistent parent-child relationships"
  ELSE IF Node(nodes, cs[k]).parent_index # node_id
       THEN "inconsistent parent-child relationships"
  ELSE ChildFailureOneMessage(nodes, node_id, cs, k + 1)

(* the verdict of the inner loop over node[1]: the first child that is no  *)
(* node or whose parent is another node, in list order                     *)
RECURSIVE ChildFailure(_, _, _, _)
ChildFailure(nodes, node_id, cs, k) ==
  IF k > Len(cs) THEN ""
  ELSE IF cs[k] \notin NodeIds(nodes) THEN "reference to nonexistent node"
  ELSE IF Node(nodes, cs[k]).parent_index # node_id
       THEN "inconsistent parent-child relationships"
  ELSE ChildFailure(nodes, node_id, cs, k + 1)

(* one iteration of: for node_id, node in nodes.items() *)
TreeCheckNode ==
  /\ tree.pc = "edges" /\ tree.i < Len(tree.nodes)
  /\ LET node == Node(tree.nodes, tree.i)
         f == ChildFailure(tree.nodes, tree.i, node.child_indices, 1)
         counted == [tree EXCEPT !.edge_count = @ + Len(node.child_indices)]
     IN tree' = IF f # "" THEN TreeReturn(counted, FALSE, f)
                ELSE [counted EXCEPT !.i = @ + 1]
  /\ UNCHANGED notTree

(* if edge_count != n - 1: return; visited = set(); stack = [root_id] *)
TreeCheckEdgeCount ==
  /\ tree.pc = "edges" /\ tree.i = Len(tree.nodes)
  /\ tree' = IF tree.edge_count # Len(tree.nodes) - 1
             THEN TreeReturn(tree, FALSE, "not a tree")
             ELSE [tree EXCEPT !.pc = "walk", !.stack = <<tree.root_id>>]
  /\ UNCHANGED notTree

(* the loop of TreeVisit without the test `current in visited` *)
TreeVisitUnchecked ==
  /\ tree.pc = "walk" /\ tree.stack # <<>>
  /\ LET current == tree.stack[Len(tree.stack)]
     IN tree' = [tree EXCEPT
                   !.order = Append(@, current),
                   !.visited = @ \cup {current},
                   !.stack = SubSeq(@, 1, Len(@) - 1)
                               \o Node(tree.nodes, current).child_indices]
  /\ UNCHANGED notTree

(* one iteration of: while stack *)
TreeVisit ==
  /\ tree.pc = "walk" /\ tree.stack # <<>>
  /\ LET current == tree.stack[Len(tree.stack)]
         popped == [tree EXCEPT !.stack = SubSeq(@, 1, Len(@) - 1),
                                !.order = Append(@, current)]
     IN tree' = IF current \in tree.visited
                THEN TreeReturn(popped, FALSE, "not a tree")
                ELSE [popped EXCEPT
                        !.visited = @ \cup {current},
                        !.stack = @ \o Node(tree.nodes, current).child_indices]
  /\ UNCHANGED notTree

(* if len(visited) != n: return (False, 'not connected'); return (True, None) *)
TreeFinish ==
  /\ tree.pc = "walk" /\ tree.stack = <<>>
  /\ tree' = IF Cardinality(tree.visited) # Len(tree.nodes)
             THEN TreeReturn(tree, FALSE, "not connected")
             ELSE TreeReturn(tree, TRUE, "")
  /\ UNCHANGED notTree

NextTree ==
  TreeFindRoot \/ TreeCheckNode \/ TreeCheckEdgeCount \/ TreeVisit \/ TreeFinish

SpecTree == InitTree /\ [][NextTree]_vars

(* the call runs to its return: the interpreter keeps executing it *)
SpecTreeFair == SpecTree /\ WF_vars(NextTree)

(* ------------------------------- Anim --------------------------------- *)
(* '%' on a uint32 named as in U32Unpack: 2^32 % 52 = 48 and 2^32 % 12 = 4 *)
U32Mod52(v) == IF v >= 0 THEN v % 52 ELSE ((v % 52) + 48) % 52
U32Mod12(v) == IF v >= 0 THEN v % 12 ELSE ((v % 12) + 4) % 12

(* the outcome of a from_reader call: the exception raised (or "none"),    *)
(* the field that raised it, the cursor left, the value returned           *)
Fail(e, st, p) == [err |-> e, site |-> st, pos |-> p, value |-> NoValue]
Ok(p, v) == [err |-> "none", site |-> "", pos |-> p, value |-> v]

(* a loop `for _ in range(n)` reading records of `size` bytes from cursor  *)
(* p runs out of bytes                                                     *)
RunsOut(b, p, n, size) == n < 0 \/ n > Len(b) \/ ~Avail(b, p, n * size)

AnimVertexSize == 52
PoseTransformSize == 48
TranslationKeyframeSize == 14
RotationKeyframeSize == 18
Data3Size == 140

MagicAnim == <<97, 110, 105, 109>>

Matrix3FromReader(b) == [k \in 1..9 |-> F32Unpack(SubSeq(b, 4 * k - 3, 4 * k))]
Float2FromReader(b) == <<F32Unpack(SubSeq(b, 1, 4)), F32Unpack(SubSeq(b, 5, 8))>>
QuaternionFromReader(b) ==
  [x |-> F32Unpack(SubSeq(b, 1, 4)), y |-> F32Unpack(SubSeq(b, 5, 8)),
   z |-> F32Unpack(SubSeq(b, 9, 12)), w |-> F32Unpack(SubSeq(b, 13, 16))]

AnimVertex(p, c, uv, n, i0, i1, w0, w1) ==
  [position |-> p, color |-> c, uv |-> uv, normal |-> n,
   bone_index_0 |-> i0, bone_index_1 |-> i1, bone_weight_0 |-> w0, bone_weight_1 |-> w1]

AnimVertexFromReader(b) ==
  AnimVertex(Vec3FromReader(SubSeq(b, 1, 12)), ColorFromReader(SubSeq(b, 13, 16)),
             Float2FromReader(SubSeq(b, 17, 24)), Vec3FromReader(SubSeq(b, 25, 36)),
             F32Unpack(SubSeq(b, 37, 40)), F32Unpack(SubSeq(b, 41, 44)),
             F32Unpack(SubSeq(b, 45, 48)), F32Unpack(SubSeq(b, 49, 52)))

AnimMesh(sh, vs, is) == [shader_id |-> sh, vertices |-> vs, indices |-> is]

(* `if vertices_size % 52 != 0` and `if indices_size % 12 != 0`: the tests *)
(* as AnimMesh.from_reader makes them, whatever `strict` is               *)
VerticesSizeViolation(s, size) == U32Mod52(size) # 0
IndicesSizeViolation(s, size) == U32Mod12(size) # 0

(* AnimMesh.from_reader(reader, strict) with the reader at cursor p *)
AnimMeshFromReader(b, p, s) ==
  IF ~Avail(b, p, 10) THEN Fail("struct.error", "mesh_header", Len(b))
  ELSE
  LET h0 == U32Unpack(Read(b, p, 4))
      h1 == U32Unpack(Read(b, p + 4, 4))
      h2 == U16Unpack(Read(b, p + 8, 2))
      pv == p + 14
  IN IF s /\ h0 # 151 THEN Fail("Exception", "mesh_h0", p + 10)
     ELSE IF s /\ h2 # 0 THEN Fail("Exception", "mesh_h2", p + 10)
     ELSE IF ~Avail(b, p + 10, 4) THEN Fail("struct.error", "vertices_size", Len(b))
     ELSE
     LET vertices_size == U32Unpack(Read(b, p + 10, 4))
         nv == vertices_size \div AnimVertexSize
         pi == pv + vertices_size
     IN IF VerticesSizeViolation(s, vertices_size)
        THEN Fail("Exception", "vertices_size", pv)
        ELSE IF RunsOut(b, pv, nv, AnimVertexSize)
             THEN Fail("struct.error", "vertex", Len(b))
        ELSE IF ~Avail(b, pi, 4) THEN Fail("struct.error", "indices_size", Len(b))
        ELSE
        LET indices_size == U32Unpack(Read(b, pi, 4))
            ni == indices_size \div 4
        IN IF IndicesSizeViolation(s, indices_size)
           THEN Fail("Exception", "indices_size", pi + 4)
           ELSE IF RunsOut(b, pi + 4, ni, 4) THEN Fail("struct.error", "index", Len(b))
           ELSE Ok(pi + 4 + indices_size,
                   AnimMesh(h1,
                     [k \in 1..nv |->
                        AnimVertexFromReader(Read(b, pv + AnimVertexSize * (k - 1),
                                                  AnimVertexSize))],
                     [k \in 1..ni |-> U32Unpack(Read(b, pi + 4 * k, 4))]))

(* _read_name(reader) with the reader at cursor p *)
ReadName(b, p) ==
  IF ~Avail(b, p, 2) THEN Fail("struct.error", "name_len", Len(b))
  ELSE LET raw == Read(b, p + 2, U16Unpack(Read(b, p, 2)))
       IN IF ~Utf8Valid(raw) THEN Fail("UnicodeDecodeError", "name", p + 2 + Len(raw))
          ELSE Ok(p + 2 + Len(raw), Utf8Decode(raw))

Bone(nm, r, t, pi, cs) ==
  [name |-> nm, rotation |-> r, translation |-> t, parent_index |-> pi,
   child_indices |-> cs]

(* Bone.from_reader(reader) with the reader at cursor p *)
BoneFromReader(b, p) ==
  LET nm == ReadName(b, p)
      q == nm.pos
  IN IF nm.err # "none" THEN nm
     ELSE IF ~Avail(b, q, 36) THEN Fail("struct.error", "rotation", Len(b))
     ELSE IF ~Avail(b, q + 36, 12) THEN Fail("struct.error", "translation", Len(b))
     ELSE IF ~Avail(b, q + 48, 8) THEN Fail("struct.error", "parent_index", Len(b))
     ELSE
     LET parent_index == U32Unpack(Read(b, q + 48, 4))
         n_children == U32Unpack(Read(b, q + 52, 4))
     IN IF RunsOut(b, q + 56, n_children, 4) THEN Fail("struct.error", "child", Len(b))
        ELSE Ok(q + 56 + 4 * n_children,
                Bone(nm.value, Matrix3FromReader(Read(b, q, 36)),
                     Vec3FromReader(Read(b, q + 36, 12)), parent_index,
                     [k \in 1..n_children |-> U32Unpack(Read(b, q + 52 + 4 * k, 4))]))

Pose(nm, bts) == [name |-> nm, bone_transforms |-> bts]

(* Pose.from_reader(reader) with the reader at cursor p *)
PoseFromReader(b, p) ==
  LET nm == ReadName(b, p)
      q == nm.pos
  IN IF nm.err # "none" THEN nm
     ELSE IF ~Avail(b, q, 4) THEN Fail("struct.error", "n_bones", Len(b))
     ELSE
     LET n_bones == U32Unpack(Read(b, q, 4))
     IN IF RunsOut(b, q + 4, n_bones, PoseTransformSize)
        THEN Fail("struct.error", "bone_transform", Len(b))
        ELSE Ok(q + 4 + PoseTransformSize * n_bones,
                Pose(nm.value,
                  [k \in 1..n_bones |->
                     <<Matrix3FromReader(Read(b, q + 4 + PoseTransformSize * (k - 1), 36)),
                       Vec3FromReader(Read(b, q + 40 + PoseTransformSize * (k - 1), 12))>>]))

TranslationKeyframe(ts, t) == [timestamp |-> ts, translation |-> t]
RotationKeyframe(ts, r) == [timestamp |-> ts, rotation |-> r]
BoneAnimation(bi, ts, rs) == [bone_index |-> bi, translations |-> ts, rotations |-> rs]

(* BoneAnimation.from_reader(reader) with the reader at cursor p *)
BoneAnimationFromReader(b, p) ==
  IF ~Avail(b, p, 4) THEN Fail("struct.error", "bone_index", Len(b))
  ELSE IF ~Avail(b, p + 4, 4) THEN Fail("struct.error", "n_translations", Len(b))
  ELSE
  LET n_translations == U32Unpack(Read(b, p + 4, 4))
      pt == p + 8
      pr == pt + TranslationKeyframeSize * n_translations
  IN IF RunsOut(b, pt, n_translations, TranslationKeyframeSize)
     THEN Fail("struct.error", "translation_keyframe", Len(b))
     ELSE IF ~Avail(b, pr, 4) THEN Fail("struct.error", "n_rotations", Len(b))
     ELSE
     LET n_rotations == U32Unpack(Read(b, pr, 4))
     IN IF RunsOut(b, pr + 4, n_rotations, RotationKeyframeSize)
        THEN Fail("struct.error", "rotation_keyframe", Len(b))
        ELSE Ok(pr + 4 + RotationKeyframeSize * n_rotations,
                BoneAnimation(U32Unpack(Read(b, p, 4)),
                  [k \in 1..n_translations |->
                     TranslationKeyframe(
                       U16Unpack(Read(b, pt + TranslationKeyframeSize * (k - 1), 2)),
                       Vec3FromReader(Read(b, pt + 2 + TranslationKeyframeSize * (k - 1), 12)))],
                  [k \in 1..n_rotations |->
                     RotationKeyframe(
                       U16Unpack(Read(b, pr + 4 + RotationKeyframeSize * (k - 1), 2)),
                       QuaternionFromReader(
                         Read(b, pr + 6 + RotationKeyframeSize * (k - 1), 16)))]))

(* for _ in range(n_bones): bone_animations.append(BoneAnimation.from_reader(reader)) *)
RECURSIVE BoneAnimationsFromReader(_, _, _, _)
BoneAnimationsFromReader(b, p, n, acc) ==
  IF ~U32Below(Len(acc), n) THEN Ok(p, acc)
  ELSE LET ba == BoneAnimationFromReader(b, p)
       IN IF ba.err # "none" THEN ba
          ELSE BoneAnimationsFromReader(b, ba.pos, n, Append(acc, ba.value))

Animation(nm, bas) == [name |-> nm, bone_animations |-> bas]

(* Animation.from_reader(reader) with the reader at cursor p *)
AnimationFromReader(b, p) ==
  LET nm == ReadName(b, p)
  IN IF nm.err # "none" THEN nm
     ELSE IF ~Avail(b, nm.pos, 4) THEN Fail("struct.error", "n_bones", Len(b))
     ELSE LET bas == BoneAnimationsFromReader(b, nm.pos + 4,
                                              U32Unpack(Read(b, nm.pos, 4)), <<>>)
          IN IF bas.err # "none" THEN bas
             ELSE Ok(bas.pos, Animation(nm.value, bas.value))

Data3(h0, m0_, v0, p0, m1, m2, p1) ==
  [h0 |-> h0, m0 |-> m0_, v0 |-> v0, p0 |-> p0, m1 |-> m1, m2 |-> m2, p1 |-> p1]

(* Data3.from_reader(reader) with the reader at cursor p *)
Data3FromReader(b, p) ==
  IF ~Avail(b, p, Data3Size) THEN Fail("struct.error", "data3", Len(b))
  ELSE Ok(p + Data3Size,
          Data3(U32Unpack(Read(b, p, 4)), Matrix3FromReader(Read(b, p + 4, 36)),
                Vec3FromReader(Read(b, p + 40, 12)), Float2FromReader(Read(b, p + 52, 8)),
                Matrix3FromReader(Read(b, p + 60, 36)),
                Matrix3FromReader(Read(b, p + 96, 36)),
                Float2FromReader(Read(b, p + 132, 8))))

AnimValue(ms, bs, ps, as, ds) ==
  [meshes |-> ms, bones |-> bs, poses |-> ps, animations |-> as, data3s |-> ds]

(* ----------------------- the .anim files given ------------------------ *)
Identity3 == <<F1, F0, F0, F0, F1, F0, F0, F0, F1>>

(* bone indices 0.0 and 0.0, weights 1.0 and 0.0 *)
AV == AnimVertex(Vec3(F1, F2, F0), Color(10, 20, 30, 255), <<F0, F1>>, Vec3(F0, F0, F1),
                 F0, F0, F1, F0)
AM == AnimMesh(0, <<AV>>, <<0, 0, 0>>)

(* bone k (0-based) of a file: named "b0", "b1", ...; its translation      *)
(* tells the bones apart                                                   *)
BoneOf(links, k) ==
  Bone(<<98, 48 + k>>, Identity3, Vec3(F1, IF k % 2 = 0 THEN F0 ELSE F2, F0),
       links.parent_index, links.child_indices)

P1 == Pose(<<112>>, <<<<Identity3, Vec3(F0, F0, F0)>>>>)
A1 ==
  Animation(<<97>>,
    <<BoneAnimation(0, <<TranslationKeyframe(0, Vec3(F0, F1, F0))>>,
                    <<RotationKeyframe(65535, [x |-> F0, y |-> F0, z |-> F0, w |-> F1])>>)>>)
D1 == Data3(0, Identity3, Vec3(F0, F0, F0), <<F0, F1>>, Identity3, Identity3, <<F1, F0>>)

(* an Anim with the bones `links`: bare (no mesh, pose, animation, block)  *)
(* or full (one of each)                                                   *)
AnimBase(links, full) ==
  AnimValue(IF full THEN <<AM>> ELSE <<>>,
            [k \in 1..Len(links) |-> BoneOf(links[k], k - 1)],
            IF full THEN <<P1>> ELSE <<>>,
            IF full THEN <<A1>> ELSE <<>>,
            IF full THEN <<D1>> ELSE <<>>)

RawMatrix3(m) == Flatten([k \in 1..9 |-> F32Pack(m[k])])
RawName(s) == U16Pack(Len(Utf8Encode(s))) \o Utf8Encode(s)

RawAnimVertex(v) ==
  Vec3ToWriter(v.position) \o ColorToWriter(v.color)
    \o F32Pack(v.uv[1]) \o F32Pack(v.uv[2]) \o Vec3ToWriter(v.normal)
    \o F32Pack(v.bone_index_0) \o F32Pack(v.bone_index_1)
    \o F32Pack(v.bone_weight_0) \o F32Pack(v.bone_weight_1)

(* A file departs from the layout by: a wrong magic tag, no magic tag, a   *)
(* wrong header field, a wrong reserved field of a mesh, a vertex byte     *)
(* size one more than 52 * n, an index byte size of 4 * (n + 1) with one   *)
(* more index present, a bone name that is no UTF-8, or a cut.             *)
AnimDefectKinds == {"magic", "nomagic", "h0", "mesh_h0", "mesh_h2", "vsize", "isize", "utf8"}

RawAnimMesh(m, d) ==
  U32Pack(IF "mesh_h0" \in d THEN 150 ELSE 151)
    \o U32Pack(m.shader_id)
    \o U16Pack(IF "mesh_h2" \in d THEN 1 ELSE 0)
    \o U32Pack(AnimVertexSize * Len(m.vertices) + (IF "vsize" \in d THEN 1 ELSE 0))
    \o Flatten([k \in 1..Len(m.vertices) |-> RawAnimVertex(m.vertices[k])])
    \o U32Pack(4 * Len(m.indices) + (IF "isize" \in d THEN 4 ELSE 0))
    \o Flatten([k \in 1..Len(m.indices) |-> U32Pack(m.indices[k])])
    \o (IF "isize" \in d THEN U32Pack(0) ELSE <<>>)

RawBone(bn, d) ==
  (IF "utf8" \in d THEN <<1, 0, 255>> ELSE RawName(bn.name))
    \o RawMatrix3(bn.rotation) \o Vec3ToWriter(bn.translation)
    \o U32Pack(bn.parent_index) \o U32Pack(Len(bn.child_indices))
    \o Flatten([k \in 1..Len(bn.child_indices) |-> U32Pack(bn.child_indices[k])])

RawPose(ps) ==
  RawName(ps.name) \o U32Pack(Len(ps.bone_transforms))
    \o Flatten([k \in 1..Len(ps.bone_transforms) |->
                  RawMatrix3(ps.bone_transforms[k][1])
                    \o Vec3ToWriter(ps.bone_transforms[k][2])])

RawBoneAnimation(ba) ==
  U32Pack(ba.bone_index) \o U32Pack(Len(ba.translations))
    \o Flatten([k \in 1..Len(ba.translations) |->
                  U16Pack(ba.translations[k].timestamp)
                    \o Vec3ToWriter(ba.translations[k].translation)])
    \o U32Pack(Len(ba.rotations))
    \o Flatten([k \in 1..Len(ba.rotations) |->
                  U16Pack(ba.rotations[k].timestamp)
                    \o F32Pack(ba.rotations[k].rotation.x)
                    \o F32Pack(ba.rotations[k].rotation.y)
                    \o F32Pack(ba.rotations[k].rotation.z)
                    \o F32Pack(ba.rotations[k].rotation.w)])

RawAnimation(an) ==
  RawName(an.name) \o U32Pack(Len(an.bone_animations))
    \o Flatten([k \in 1..Len(an.bone_animations) |-> RawBoneAnimation(an.bone_animations[k])])

RawData3(dt) ==
  U32Pack(dt.h0) \o RawMatrix3(dt.m0) \o Vec3ToWriter(dt.v0)
    \o F32Pack(dt.p0[1]) \o F32Pack(dt.p0[2])
    \o RawMatrix3(dt.m1) \o RawMatrix3(dt.m2)
    \o F32Pack(dt.p1[1]) \o F32Pack(dt.p1[2])

(* the bytes of the file described by the Anim a and the departures d;     *)
(* mesh and bone departures are in the first mesh and the first bone       *)
AnimFullLayout(a, d) ==
  (IF "nomagic" \in d THEN <<>>
   ELSE IF "magic" \in d THEN <<97, 110, 105, 120>> ELSE MagicAnim)
    \o U32Pack(IF "h0" \in d THEN 2 ELSE 1)
    \o U32Pack(Len(a.meshes))
    \o Flatten([k \in 1..Len(a.meshes) |-> RawAnimMesh(a.meshes[k], IF k = 1 THEN d ELSE {})])
    \o U32Pack(Len(a.bones))
    \o Flatten([k \in 1..Len(a.bones) |-> RawBone(a.bones[k], IF k = 1 THEN d ELSE {})])
    \o U32Pack(Len(a.poses))
    \o Flatten([k \in 1..Len(a.poses) |-> RawPose(a.poses[k])])
    \o U32Pack(Len(a.animations))
    \o Flatten([k \in 1..Len(a.animations) |-> RawAnimation(a.animations[k])])
    \o U32Pack(Len(a.data3s))
    \o Flatten([k \in 1..Len(a.data3s) |-> RawData3(a.data3s[k])])

AnimSource(a, d, c) == [base |-> a, defs |-> d, cut |-> c]
AnimWhole(a, d) == AnimSource(a, d, Len(AnimFullLayout(a, d)))
AnimLayout(s) == SubSeq(AnimFullLayout(s.base, s.defs), 1, s.cut)

(* the bone links of the files: two bones in a tree, with the child first  *)
(* or second, and a single root                                            *)
TwoBones == <<BoneLinks(-1, <<1>>), BoneLinks(0, <<>>)>>
TwoBonesChildFirst == <<BoneLinks(1, <<>>), BoneLinks(-1, <<0>>)>>

(* ------------------------ utils: conversions -------------------------- *)
(* to_blender_vec: mathutils.Vector((v.x, v.z, v.y)) *)
ToBlenderVec(v) == <<v.x, v.z, v.y>>

(* to_blender_rotation_matrix: rows (m0 m6 m3), (m2 m8 m5), (m1 m7 m4) *)
ToBlenderRotationMatrix(r) ==
  <<<<r[1], r[7], r[4]>>, <<r[3], r[9], r[6]>>, <<r[2], r[8], r[5]>>>>

(* to_blender_transform_matrix: Matrix.LocRotScale(location, rotation, None) *)
ToBlenderTransformMatrix(r, t) ==
  [loc |-> ToBlenderVec(t), rot |-> ToBlenderRotationMatrix(r)]

(* A product of transform matrices is named by the sequence of its         *)
(* factors, left to right: `a @ b` is a \o b, and a matrix that is no      *)
(* product is a sequence of one factor.                                    *)
Factor(m) == <<m>>
MatMul(a, b) == a \o b

(* ---------------------- _resolve_bone_matrices ------------------------ *)
RbmCall(r, parents, locals_) ==
  [r EXCEPT !.pc = "loop", !.bone_parent_indices = parents, !.local_matrices = locals_,
            !.q = [k \in 1..Len(parents) |-> k - 1], !.resolved = <<>>]

(* resolved[i] = v in the dict `resolved` *)
Resolve(resolved, i, v) ==
  [k \in DOMAIN resolved \cup {i} |-> IF k = i THEN v ELSE resolved[k]]

(* variant: a bone whose parent is not resolved yet is taken off the queue *)
(* and not put back                                                        *)
RbmPopDropUnresolved ==
  /\ rbm.pc = "loop" /\ Len(rbm.q) > 0
  /\ LET i == Head(rbm.q)
         p == rbm.bone_parent_indices[i + 1]
         m == rbm.local_matrices[i + 1]
     IN rbm' = IF p = -1
               THEN [rbm EXCEPT !.q = Tail(@), !.resolved = Resolve(@, i, m)]
               ELSE IF p \in DOMAIN rbm.resolved
               THEN [rbm EXCEPT !.q = Tail(@),
                                !.resolved = Resolve(@, i, MatMul(rbm.resolved[p], m))]
               ELSE [rbm EXCEPT !.q = Tail(@)]
  /\ UNCHANGED notRbm

(* variant: a bone whose parent is not resolved yet is given its local    *)
(* matrix instead of being put back in the queue                           *)
RbmPopNoRequeue ==
  /\ rbm.pc = "loop" /\ Len(rbm.q) > 0
  /\ LET i == Head(rbm.q)
         p == rbm.bone_parent_indices[i + 1]
         m == rbm.local_matrices[i + 1]
     IN rbm' = IF p = -1 \/ p \notin DOMAIN rbm.resolved
               THEN [rbm EXCEPT !.q = Tail(@), !.resolved = Resolve(@, i, m)]
               ELSE [rbm EXCEPT !.q = Tail(@),
                                !.resolved = Resolve(@, i, MatMul(rbm.resolved[p], m))]
  /\ UNCHANGED notRbm

(* one iteration of: while len(q) > 0 *)
RbmPop ==
  /\ rbm.pc = "loop" /\ Len(rbm.q) > 0
  /\ LET i == Head(rbm.q)
         p == rbm.bone_parent_indices[i + 1]
         m == rbm.local_matrices[i + 1]
     IN rbm' = IF p = -1
               THEN [rbm EXCEPT !.q = Tail(@), !.resolved = Resolve(@, i, m)]
               ELSE IF p \in DOMAIN rbm.resolved
               THEN [rbm EXCEPT !.q = Tail(@),
                                !.resolved = Resolve(@, i, MatMul(rbm.resolved[p], m))]
               ELSE [rbm EXCEPT !.q = Append(Tail(@), i)]
  /\ UNCHANGED notRbm

(* return resolved *)
RbmReturn ==
  /\ rbm.pc = "loop" /\ Len(rbm.q) = 0
  /\ rbm' = [rbm EXCEPT !.pc = "done"]
  /\ UNCHANGED notRbm

(* ----------------------- _ObjectMaterialBuilder ----------------------- *)
(* An index attribute that is None is named by -1.                         *)
NewBuilder(name) ==
  [name |-> name, materials |-> <<>>, glass_index |-> -1, additive_index |-> -1,
   lava_index |-> -1, override1_index |-> -1, override2_index |-> -1,
   override3_index |-> -1, color_indices |-> {}, vertices |-> <<>>,
   triangles |-> <<>>, polygon_material |-> <<>>]

OVERRIDE_COLOR_1 == Color(255, 125, 0, 255)
OVERRIDE_COLOR_2 == Color(155, 125, 0, 255)
OVERRIDE_COLOR_3 == Color(55, 125, 0, 255)

Material(name, color) == [name |-> name, color |-> color]

(* a fixed material name, or f'{self.name}_{n:02}' for n >= 1 *)
MaterialName(base, n) == [base |-> base, n |-> n]

Repeat(x, n) == [k \in 1..n |-> x]

(* the branches `shader_id == 1`, `== 2`, `== 3`: one material for the     *)
(* shader, taken from the first vertex the first time; vertices[0] raises  *)
(* after the index attribute has been set                                  *)
AddShaderTriangles(bl, field, name, vs, nt) ==
  IF bl[field] # -1
  THEN [err |-> "none", builder |-> [bl EXCEPT !.polygon_material = @ \o Repeat(bl[field], nt)]]
  ELSE IF vs = <<>>
       THEN [err |-> "IndexError", builder |-> [bl EXCEPT ![field] = Len(bl.materials)]]
  ELSE [err |-> "none",
        builder |-> [bl EXCEPT ![field] = Len(bl.materials),
                               !.materials = Append(@, Material(name, vs[1].color)),
                               !.polygon_material = @ \o Repeat(Len(bl.materials), nt)]]

(* variant: a colour seen before is given a new material all the same *)
AddColorTriangleAlwaysNew(bl, color) ==
  [bl EXCEPT !.color_indices = @ \cup {<<color, Len(bl.materials)>>},
             !.polygon_material = Append(@, Len(bl.materials)),
             !.materials = Append(@, Material(MaterialName(bl.name, Cardinality(bl.color_indices) + 1),
                                              color))]

(* the material of one triangle in the last branch, by the colour of its   *)
(* first vertex                                                            *)
AddColorTriangle(bl, color) ==
  LET override(field, name) ==
        IF bl[field] # -1
        THEN [bl EXCEPT !.polygon_material = Append(@, bl[field])]
        ELSE [bl EXCEPT ![field] = Len(bl.materials),
                        !.materials = Append(@, Material(name, color)),
                        !.polygon_material = Append(@, Len(bl.materials))]
  IN IF color = OVERRIDE_COLOR_1 THEN override("override1_index", MaterialName("OverrideColor1", 0))
     ELSE IF color = OVERRIDE_COLOR_2 THEN override("override2_index", MaterialName("OverrideColor2", 0))
     ELSE IF color = OVERRIDE_COLOR_3 THEN override("override3_index", MaterialName("OverrideColor3", 0))
     ELSE IF \E e \in bl.color_indices : e[1] = color
     THEN [bl EXCEPT !.polygon_material =
                       Append(@, (CHOOSE e \in bl.color_indices : e[1] = color)[2])]
     ELSE [bl EXCEPT !.color_indices = @ \cup {<<color, Len(bl.materials)>>},
                     !.polygon_material = Append(@, Len(bl.materials)),
                     !.materials = Append(@, Material(MaterialName(bl.name, Cardinality(bl.color_indices) + 1),
                                                      color))]

(* for i in range(n_triangles) of the last branch, from triangle i on *)
RECURSIVE AddColorTriangles(_, _, _, _, _)
AddColorTriangles(bl, vs, is, i, nt) ==
  IF i >= nt THEN [err |-> "none", builder |-> bl]
  ELSE IF is[3 * i + 1] < 0 \/ is[3 * i + 1] >= Len(vs)
       THEN [err |-> "IndexError", builder |-> bl]
  ELSE AddColorTriangles(AddColorTriangle(bl, vs[is[3 * i + 1] + 1].color), vs, is, i + 1, nt)

(* variant: the length of the index list is tested after the vertices     *)
(* have been added                                                         *)
AddSubmeshChecksLate(bl, shader_id, vs, is) ==
  LET b1 == [bl EXCEPT
               !.vertices = @ \o [k \in 1..Len(vs) |-> ToBlenderVec(vs[k].position)]]
  IN IF Len(is) % 3 # 0 THEN [err |-> "Exception", builder |-> b1]
     ELSE [err |-> "none", builder |-> b1]

(* add_submesh(shader_id, vertices, indices) *)
AddSubmesh(bl, shader_id, vs, is) ==
  IF Len(is) % 3 # 0 THEN [err |-> "Exception", builder |-> bl]
  ELSE
  LET i_offset == Len(bl.vertices)
      nt == Len(is) \div 3
      b1 == [bl EXCEPT
               !.vertices = @ \o [k \in 1..Len(vs) |-> ToBlenderVec(vs[k].position)],
               !.triangles = @ \o [k \in 1..nt |->
                                     <<i_offset + is[3 * k - 2], i_offset + is[3 * k - 1],
                                       i_offset + is[3 * k]>>]]
  IN IF shader_id = 1 THEN AddShaderTriangles(b1, "glass_index", MaterialName("MATERIALglass", 0), vs, nt)
     ELSE IF shader_id = 2
          THEN AddShaderTriangles(b1, "additive_index", MaterialName("MATERIALadditive", 0), vs, nt)
     ELSE IF shader_id = 3
          THEN AddShaderTriangles(b1, "lava_index", MaterialName("MATERIALlava", 0), vs, nt)
     ELSE AddColorTriangles(b1, vs, is, 0, nt)

(* for anim_mesh in anim_data.meshes: obj_builder.add_submesh(...) *)
RECURSIVE AddAnimMeshes(_, _, _)
AddAnimMeshes(bl, meshes, k) ==
  IF k > Len(meshes) THEN [err |-> "none", builder |-> bl]
  ELSE LET r == AddSubmesh(bl, meshes[k].shader_id, meshes[k].vertices, meshes[k].indices)
       IN IF r.err # "none" THEN r ELSE AddAnimMeshes(r.builder, meshes, k + 1)

(* finalize: the object made by _create_mesh_object, its materials, and    *)
(* the material index of each polygon (zip stops at the shorter list)      *)
Finalize(bl) ==
  [name |-> bl.name, vertices |-> bl.vertices, triangles |-> bl.triangles,
   materials |-> bl.materials,
   material_index |->
     [k \in 1..Min(Len(bl.polygon_material), Len(bl.triangles)) |-> bl.polygon_material[k]]]

(* ------------------ Anim.from_reader, step by step -------------------- *)
AnimRaise(e, st, p) ==
  anim' = [anim EXCEPT !.pc = "error", !.err = e, !.site = st, !.pos = p]

AnimParsing == anim.pc \in {"magic", "header", "meshes", "bones", "poses",
                            "animations", "data3s"}

(* if strict and reader.read(4) != b'anim': raise ValueError *)
AnimReadMagic ==
  /\ anim.pc = "magic"
  /\ IF anim.strict
     THEN IF Read(anim.buf, anim.pos, 4) # MagicAnim
          THEN AnimRaise("ValueError", "magic", anim.pos + Len(Read(anim.buf, anim.pos, 4)))
          ELSE anim' = [anim EXCEPT !.pos = @ + 4, !.pc = "header"]
     ELSE anim' = [anim EXCEPT !.pc = "header"]
  /\ UNCHANGED notAnim

(* h0, n_meshes = _read_unpack(reader, '<II'); if strict and h0 != 1: raise *)
AnimReadHeader ==
  /\ anim.pc = "header"
  /\ IF ~Avail(anim.buf, anim.pos, 8)
     THEN AnimRaise("struct.error", "header", Len(anim.buf))
     ELSE IF anim.strict /\ U32Unpack(Read(anim.buf, anim.pos, 4)) # 1
          THEN AnimRaise("Exception", "h0", anim.pos + 8)
     ELSE anim' = [anim EXCEPT !.n_meshes = U32Unpack(Read(anim.buf, anim.pos + 4, 4)),
                               !.pos = @ + 8, !.pc = "meshes"]
  /\ UNCHANGED notAnim

(* one iteration of a loop `for _ in range(n): list.append(X.from_reader(reader))` *)
AnimAppend(field, r) ==
  IF r.err # "none" THEN AnimRaise(r.err, r.site, r.pos)
  ELSE anim' = [anim EXCEPT ![field] = Append(@, r.value), !.pos = r.pos]

(* n = _read_uint(reader) after the loop before it has ended *)
AnimReadCount(field, next) ==
  IF ~Avail(anim.buf, anim.pos, 4)
  THEN AnimRaise("struct.error", field, Len(anim.buf))
  ELSE anim' = [anim EXCEPT ![field] = U32Unpack(Read(anim.buf, anim.pos, 4)),
                            !.pos = @ + 4, !.pc = next]

AnimReadMesh ==
  /\ anim.pc = "meshes" /\ U32Below(Len(anim.meshes), anim.n_meshes)
  /\ AnimAppend("meshes", AnimMeshFromReader(anim.buf, anim.pos, anim.strict))
  /\ UNCHANGED notAnim

AnimReadBoneCount ==
  /\ anim.pc = "meshes" /\ ~U32Below(Len(anim.meshes), anim.n_meshes)
  /\ AnimReadCount("n_bones", "bones")
  /\ UNCHANGED notAnim

AnimReadBone ==
  /\ anim.pc = "bones" /\ U32Below(Len(anim.bones), anim.n_bones)
  /\ AnimAppend("bones", BoneFromReader(anim.buf, anim.pos))
  /\ UNCHANGED notAnim

AnimReadPoseCount ==
  /\ anim.pc = "bones" /\ ~U32Below(Len(anim.bones), anim.n_bones)
  /\ AnimReadCount("n_poses", "poses")
  /\ UNCHANGED notAnim

AnimReadPose ==
  /\ anim.pc = "poses" /\ U32Below(Len(anim.poses), anim.n_poses)
  /\ AnimAppend("poses", PoseFromReader(anim.buf, anim.pos))
  /\ UNCHANGED notAnim

AnimReadAnimationCount ==
  /\ anim.pc = "poses" /\ ~U32Below(Len(anim.poses), anim.n_poses)
  /\ AnimReadCount("n_animations", "animations")
  /\ UNCHANGED notAnim

AnimReadAnimation ==
  /\ anim.pc = "animations" /\ U32Below(Len(anim.animations), anim.n_animations)
  /\ AnimAppend("animations", AnimationFromReader(anim.buf, anim.pos))
  /\ UNCHANGED notAnim

AnimReadData3Count ==
  /\ anim.pc = "animations" /\ ~U32Below(Len(anim.animations), anim.n_animations)
  /\ AnimReadCount("n_data3s", "data3s")
  /\ UNCHANGED notAnim

AnimReadData3 ==
  /\ anim.pc = "data3s" /\ U32Below(Len(anim.data3s), anim.n_data3s)
  /\ AnimAppend("data3s", Data3FromReader(anim.buf, anim.pos))
  /\ UNCHANGED notAnim

(* return Anim(meshes, bones, poses, animations, data3s) *)
AnimReturn ==
  /\ anim.pc = "data3s" /\ ~U32Below(Len(anim.data3s), anim.n_data3s)
  /\ anim' = [anim EXCEPT !.pc = "parsed",
                          !.result = AnimValue(anim.meshes, anim.bones, anim.poses,
                                               anim.animations, anim.data3s)]
  /\ UNCHANGED notAnim

AnimFromReader ==
  \/ AnimReadMagic \/ AnimReadHeader \/ AnimReadMesh \/ AnimReadBoneCount
  \/ AnimReadBone \/ AnimReadPoseCount \/ AnimReadPose \/ AnimReadAnimationCount
  \/ AnimReadAnimation \/ AnimReadData3Count \/ AnimReadData3 \/ AnimReturn

(* ------------------------------ load_anim ----------------------------- *)
(* int(f) and f > 0.0 for the float32 values of the files given *)
IntOfFloat(f) == CASE f = F0 -> 0 [] f = F1 -> 1 [] f = F2 -> 2 [] f = FM1 -> -1
IsNaN(f) == f[1] % 128 = 127 /\ f[2] >= 128 /\ (f[2] > 128 \/ f[3] > 0 \/ f[4] > 0)
FloatPositive(f) == f[1] < 128 /\ f # F0 /\ ~IsNaN(f)

LinksOf(bones) ==
  [k \in 1..Len(bones) |-> BoneLinks(bones[k].parent_index, bones[k].child_indices)]

(* is_valid, msg = validate_connected_tree({i: (b.parent_index, b.child_indices) ...}) *)
LoadValidate ==
  /\ anim.pc = "parsed"
  /\ tree' = TreeCall(LinksOf(anim.result.bones))
  /\ anim' = [anim EXCEPT !.pc = "validating"]
  /\ UNCHANGED <<codecs, rbm, save>>

(* the `if not is_valid` of LoadCheckValid made only in strict mode *)
LoadCheckValidWhenStrict ==
  /\ anim.pc = "validating" /\ tree.pc = "done"
  /\ IF anim.strict /\ ~tree.ret[1]
     THEN AnimRaise("Exception", "bones", anim.pos)
     ELSE anim' = [anim EXCEPT !.pc = "build_mesh"]
  /\ UNCHANGED notAnim

(* if not is_valid: raise Exception(f'Invalid bone structure: {msg}') *)
LoadCheckValid ==
  /\ anim.pc = "validating" /\ tree.pc = "done"
  /\ IF ~tree.ret[1]
     THEN AnimRaise("Exception", "bones", anim.pos)
     ELSE anim' = [anim EXCEPT !.pc = "build_mesh"]
  /\ UNCHANGED notAnim

(* obj_builder = ...; add_submesh for every mesh; finalize(collection) *)
LoadBuildMesh ==
  /\ anim.pc = "build_mesh"
  /\ LET r == AddAnimMeshes(NewBuilder("name_mesh"), anim.result.meshes, 1)
     IN IF r.err # "none" THEN AnimRaise(r.err, "add_submesh", anim.pos)
        ELSE anim' = [anim EXCEPT !.pc = "armature", !.mesh_obj = Finalize(r.builder)]
  /\ UNCHANGED notAnim

(* the armature object is created, made the parent of the mesh object,     *)
(* linked and put in edit mode                                             *)
LoadArmature ==
  /\ anim.pc = "armature"
  /\ anim' = [anim EXCEPT !.pc = "resolve", !.arm_obj = TRUE]
  /\ UNCHANGED notAnim

(* bone_matrices = _resolve_bone_matrices(bone_parent_indices, [...]) *)
LoadResolve ==
  /\ anim.pc = "resolve"
  /\ rbm' = RbmCall(rbm, [k \in 1..Len(anim.result.bones) |-> anim.result.bones[k].parent_index],
                    [k \in 1..Len(anim.result.bones) |->
                       Factor(ToBlenderTransformMatrix(anim.result.bones[k].rotation,
                                                       anim.result.bones[k].translation))])
  /\ anim' = [anim EXCEPT !.pc = "resolving"]
  /\ UNCHANGED <<codecs, tree, save>>

(* for i, b in enumerate(anim_data.bones): an edit bone and a vertex group *)
(* per bone; eb.matrix = bone_matrices[i]                                  *)
LoadEditBones ==
  /\ anim.pc = "resolving" /\ rbm.pc = "done"
  /\ anim' = [anim EXCEPT
                !.pc = "link_bones",
                !.edit_bones = [k \in 1..Len(anim.result.bones) |->
                                  [name |-> anim.result.bones[k].name,
                                   matrix |-> rbm.resolved[k - 1],
                                   parent |-> -1, tail |-> -1]],
                !.vertex_groups = [k \in 1..Len(anim.result.bones) |-> {}]]
  /\ UNCHANGED notAnim

(* eb.parent = edit_bones[b.parent_index]; eb.tail = edit_bones[b.child_indices[0]].head *)
LoadLinkBones ==
  /\ anim.pc = "link_bones"
  /\ anim' = [anim EXCEPT
                !.pc = "weights",
                !.edit_bones =
                   [k \in 1..Len(anim.edit_bones) |->
                      [anim.edit_bones[k] EXCEPT
                         !.parent = IF anim.result.bones[k].parent_index >= 0
                                    THEN anim.result.bones[k].parent_index ELSE -1,
                         !.tail = IF Len(anim.result.bones[k].child_indices) >= 1
                                  THEN anim.result.bones[k].child_indices[1] ELSE -1]]]
  /\ UNCHANGED notAnim

(* the vertices of all meshes in order, each with its index in the object *)
AllAnimVertices(meshes) == Flatten([k \in 1..Len(meshes) |-> meshes[k].vertices])

(* vertex_groups[b].add([i], w, 'REPLACE') *)
GroupAdd(groups, b, i, w) ==
  [groups EXCEPT ![b + 1] = {e \in @ : e[1] # i} \cup {<<i, w>>}]

(* one (b, w) pair of vertex number i: raise when b >= len(bones), add     *)
(* when the weight is positive; vertex_groups[b] with b below 0 counts     *)
(* from the end of the list, and raises IndexError below -len              *)
PairAdd(r, b, i, w, n_bones) ==
  IF r.err # "none" THEN r
  ELSE IF b >= n_bones THEN [r EXCEPT !.err = "Exception"]
  ELSE IF ~FloatPositive(w) THEN r
  ELSE IF b < 0 - n_bones THEN [r EXCEPT !.err = "IndexError"]
  ELSE [r EXCEPT !.groups = GroupAdd(@, IF b < 0 THEN b + n_bones ELSE b, i, w)]

(* the two (bone index, weight) pairs of vertex number i (0-based), in     *)
(* order                                                                   *)
RECURSIVE AddWeights(_, _, _, _)
AddWeights(groups, vs, i, n_bones) ==
  IF i >= Len(vs) THEN [err |-> "none", groups |-> groups]
  ELSE
  LET v == vs[i + 1]
      r0 == PairAdd([err |-> "none", groups |-> groups],
                    IntOfFloat(v.bone_index_0), i, v.bone_weight_0, n_bones)
      r1 == PairAdd(r0, IntOfFloat(v.bone_index_1), i, v.bone_weight_1, n_bones)
  IN IF r1.err # "none" THEN r1 ELSE AddWeights(r1.groups, vs, i + 1, n_bones)

(* the loop that registers the bone weights of the vertices *)
LoadWeights ==
  /\ anim.pc = "weights"
  /\ LET r == AddWeights(anim.vertex_groups, AllAnimVertices(anim.result.meshes), 0,
                         Len(anim.result.bones))
     IN IF r.err # "none" THEN AnimRaise(r.err, "bone_index", anim.pos)
        ELSE anim' = [anim EXCEPT !.pc = "bone_sizes", !.vertex_groups = r.groups]
  /\ UNCHANGED notAnim

(* the loop that gives a length to the bones shorter than 0.01 *)
LoadBoneSizes ==
  /\ anim.pc = "bone_sizes"
  /\ anim' = [anim EXCEPT !.pc = "done"]
  /\ UNCHANGED notAnim

(* the files load_anim is given, with strict_mode on or off: a file in the *)
(* layout, with or without its magic tag, for every set of bone links; a   *)
(* file with one departure; a file cut short                               *)
AnimLinkSets ==
  UNION {{[i \in 1..n |-> BoneLinks(ps[i], cs[i])] :
            ps \in [1..n -> -1..(n - 1)], cs \in ChildListChoices(n, n, MaxRefs)} :
         n \in 0..MaxAnimBones}

(* files with two meshes, the second with one vertex of bone indices among *)
(* -1.0, 0.0, 1.0, 2.0 and weights among 0.0 and 1.0                       *)
OneBone == <<BoneLinks(-1, <<>>)>>
SkinVertices ==
  {AnimVertex(Vec3(F0, F0, F0), Color(10, 20, 30, 255), <<F0, F1>>, Vec3(F0, F0, F1),
              i0, i1, w0, w1) :
     i0 \in {FM1, F0, F1, F2}, i1 \in {FM1, F0}, w0 \in {F0, F1}, w1 \in {F0, F1}}
AnimSkinned(links, v) ==
  AnimValue(<<AM, AnimMesh(0, <<v>>, <<0, 0, 0>>)>>,
            [k \in 1..Len(links) |-> BoneOf(links[k], k - 1)], <<>>, <<>>, <<>>)

AnimCall(s, st) ==
  [AnimIdle EXCEPT !.pc = "magic", !.src = s, !.buf = AnimLayout(s), !.strict = st]

InitAnim ==
  /\ impl = "data_struct"
  /\ MeshIdle
  /\ phys = PhysIdle
  /\ tree = TreeIdle /\ rbm = RbmIdle /\ save = SaveIdle /\ MoreIdle
  /\ \/ \E links \in AnimLinkSets, full \in BOOLEAN, st \in BOOLEAN :
          anim = AnimCall(AnimWhole(AnimBase(links, full), IF st THEN {} ELSE {"nomagic"}), st)
     \/ \E links \in {TwoBones, TwoBonesChildFirst}, d \in AnimDefectKinds,
           nm \in BOOLEAN, st \in BOOLEAN :
          anim = AnimCall(AnimWhole(AnimBase(links, TRUE),
                                    {d} \cup (IF nm THEN {"nomagic"} ELSE {})), st)
     \/ \E c \in 0..Len(AnimFullLayout(AnimBase(TwoBones, TRUE), {})), st \in BOOLEAN :
          anim = AnimCall(AnimSource(AnimBase(TwoBones, TRUE), {}, c), st)
     \/ \E st \in BOOLEAN :
          anim = AnimCall(AnimWhole(AnimBase(TwoBones, TRUE), {}), st)
     \/ \E links \in {OneBone, TwoBones}, v \in SkinVertices, st \in BOOLEAN :
          anim = AnimCall(AnimWhole(AnimSkinned(links, v),
                                    IF st THEN {} ELSE {"nomagic"}), st)

LoadAnim ==
  \/ LoadValidate \/ LoadCheckValid \/ LoadBuildMesh \/ LoadArmature \/ LoadResolve
  \/ LoadEditBones \/ LoadLinkBones \/ LoadWeights \/ LoadBoneSizes

NextAnim == AnimFromReader \/ NextTree \/ RbmPop \/ RbmReturn \/ LoadAnim

SpecAnim == InitAnim /\ [][NextAnim]_vars

(* ----------------- _resolve_bone_matrices on its own ------------------ *)
(* A valid bone tree is given by the parent of each bone in a parent-first *)
(* numbering 1..n (0 for the root, bone 1) and by the place perm[k] of     *)
(* bone k in the declared list; the local matrix of bone k is the factor k *)
PermsOf(n) == {f \in [1..n -> 1..n] : \A a, b \in 1..n : f[a] = f[b] => a = b}

(* bone_parent_indices of the declared list *)
DeclaredParents(t, perm) ==
  [j \in 1..Len(t) |->
     LET k == CHOOSE c \in 1..Len(t) : perm[c] = j
     IN IF t[k] = 0 THEN -1 ELSE perm[t[k]] - 1]

(* local_matrices of the declared list *)
DeclaredLocals(t, perm) ==
  [j \in 1..Len(t) |-> Factor(CHOOSE c \in 1..Len(t) : perm[c] = j)]

(* the identity: the parent-first declaration *)
ParentFirst(n) == [k \in 1..n |-> k]

InitResolve ==
  /\ impl = "data_struct"
  /\ MeshIdle
  /\ phys = PhysIdle
  /\ tree = TreeIdle /\ anim = AnimIdle /\ save = SaveIdle /\ MoreIdle
  /\ \E n \in 1..MaxResolveBones :
       \E t \in [1..n -> 0..(n - 1)] :
         /\ \A k \in 1..n : IF k = 1 THEN t[k] = 0 ELSE (1 <= t[k] /\ t[k] < k)
         /\ \E perm \in PermsOf(n) :
              rbm = RbmCall([RbmIdle EXCEPT !.declared = [t |-> t, perm |-> perm]],
                            DeclaredParents(t, perm), DeclaredLocals(t, perm))

(* the caller keeps the result for the declared list and calls again with  *)
(* the same tree declared parent first                                     *)
ResolveParentFirst ==
  /\ rbm.pc = "done" /\ rbm.declared # NoValue /\ rbm.first = NoValue
  /\ LET t == rbm.declared.t
     IN rbm' = RbmCall([rbm EXCEPT !.first = [resolved |-> rbm.resolved]],
                       DeclaredParents(t, ParentFirst(Len(t))),
                       DeclaredLocals(t, ParentFirst(Len(t))))
  /\ UNCHANGED notRbm

NextResolve == RbmPop \/ RbmReturn \/ ResolveParentFirst

SpecResolve == InitResolve /\ [][NextResolve]_vars

(* the while loop goes on while the queue is not empty *)
SpecResolveFair == SpecResolve /\ WF_vars(NextResolve)

(* ------------------------------ save_mesh ----------------------------- *)
(* A face of an evaluated, triangulated mesh: the name of its material     *)
(* ("" when it has none), the coordinates of its three vertices and its    *)
(* normal, as Blender vectors.  The materials have no Principled BSDF      *)
(* node, so bsdf_base_color returns None and the colour is not overridden. *)
Face(material, co, normal) == [material |-> material, co |-> co, normal |-> normal]

GLASS_COLOR == Color(160, 160, 199, 128)
ADDITIVE_COLOR == Color(255, 255, 0, 255)
LAVA_COLOR == Color(149, 149, 149, 255)

(* variant: the components moved round instead of two of them swapped *)
FromBlenderVecRotated(v) == Vec3(v[2], v[3], v[1])

(* from_blender_vec *)
FromBlenderVec(v) == Vec3(v[1], v[3], v[2])

(* round(num / den), halves to the even neighbour *)
RoundHalfEven(num, den) ==
  LET q == num \div den
      r == num % den
  IN IF 2 * r < den THEN q
     ELSE IF 2 * r > den THEN q + 1
     ELSE IF q % 2 = 0 THEN q ELSE q + 1

(* from_blender_color, the channels given in thousandths *)
FromBlenderColor(c) ==
  LET ch(v) == Min(Max(RoundHalfEven(v * 255, 1000), 0), 255)
  IN Color(ch(c[1]), ch(c[2]), ch(c[3]), ch(c[4]))

(* shader_id and color of a face *)
ShaderIdOf(material) ==
  CASE material = "MATERIALglass" -> 1
    [] material = "MATERIALadditive" -> 2
    [] material = "MATERIALlava" -> 3
    [] OTHER -> 0

ColorOf(material) ==
  CASE material = "MATERIALglass" -> GLASS_COLOR
    [] material = "MATERIALadditive" -> ADDITIVE_COLOR
    [] material = "MATERIALlava" -> LAVA_COLOR
    [] OTHER -> FromBlenderColor(<<600, 600, 600, 1000>>)

(* tuple(MeshVertex(from_blender_vec(mesh.vertices[v].co), color, normal)  *)
(*       for v in face.vertices[:3])                                       *)
TriangleOf(face) ==
  [k \in 1..3 |-> MeshVertex(FromBlenderVec(face.co[k]), ColorOf(face.material),
                             FromBlenderVec(face.normal))]

(* submesh_triangles after the loop over the objects' faces; an object is  *)
(* a record of its name and its faces                                      *)
SubmeshTriangles(objects) ==
  LET faces == Flatten([o \in 1..Len(objects) |-> objects[o].faces])
  IN [sh \in 0..3 |->
        LET own == SelectSeq(faces, LAMBDA f : ShaderIdOf(f.material) = sh)
        IN [k \in 1..Len(own) |-> TriangleOf(own[k])]]

(* submesh_names after the loop, for name_mode 'NONE' and 'OBJECT': the    *)
(* name of the last object with a face of the shader                       *)
SubmeshNames(objects, name_mode) ==
  [sh \in 0..3 |->
     LET users == {o \in 1..Len(objects) :
                     \E k \in 1..Len(objects[o].faces) :
                        ShaderIdOf(objects[o].faces[k].material) = sh}
     IN IF name_mode = "OBJECT" /\ users # {}
        THEN objects[CHOOSE o \in users : \A u \in users : u <= o].name
        ELSE <<>>]

(* min and max of two of the floats 0.0, 1.0, 2.0 *)
FloatMin(a, b) == IF IntOfFloat(b) < IntOfFloat(a) THEN b ELSE a
FloatMax(a, b) == IF IntOfFloat(b) > IntOfFloat(a) THEN b ELSE a

(* the MeshVec3 made of _vec_min(a, b) and of _vec_max(a, b); b may be None *)
VecMin(a, b) ==
  IF b = NoValue THEN Vec3(a.x, a.y, a.z)
  ELSE Vec3(FloatMin(a.x, b.x), FloatMin(a.y, b.y), FloatMin(a.z, b.z))
VecMax(a, b) ==
  IF b = NoValue THEN Vec3(a.x, a.y, a.z)
  ELSE Vec3(FloatMax(a.x, b.x), FloatMax(a.y, b.y), FloatMax(a.z, b.z))

(* variant: the vertex is appended without looking it up *)
AddVertexNoLookup(o, vertex) ==
  [o EXCEPT !.vertices = Append(@, vertex), !.indices = Append(@, Len(o.vertices))]

(* _PolygonOptimizer.add_vertex on the lists o.vertices, o.indices and the *)
(* dict o.vertex_index_map                                                 *)
AddVertex(o, vertex) ==
  IF vertex \in DOMAIN o.vertex_index_map
  THEN [o EXCEPT !.indices = Append(@, o.vertex_index_map[vertex])]
  ELSE LET i == Len(o.vertices)
       IN [o EXCEPT !.vertices = Append(@, vertex),
                    !.vertex_index_map =
                       [k \in DOMAIN o.vertex_index_map \cup {vertex} |->
                          IF k = vertex THEN i ELSE o.vertex_index_map[k]],
                    !.indices = Append(@, i)]

(* the loops `for triangle in triangles: for vertex in triangle` over the  *)
(* vertices vs from number k on                                            *)
RECURSIVE AddTriangleVertices(_, _, _, _, _)
AddTriangleVertices(o, mn, mx, vs, k) ==
  IF k > Len(vs) THEN [o |-> o, bounds_min |-> mn, bounds_max |-> mx]
  ELSE AddTriangleVertices(AddVertex(o, vs[k]), VecMin(vs[k].position, mn),
                           VecMax(vs[k].position, mx), vs, k + 1)

(* Mesh(vertices, indices, submeshes).to_writer(f) *)
MeshToWriter(m) ==
  MeshHeaderToWriter(m)
    \o Flatten([k \in 1..Len(m.vertices) |-> MeshVertexToWriter(m.vertices[k])])
    \o U32Pack(Len(m.indices))
    \o Flatten([k \in 1..Len(m.indices) |-> U16Pack(m.indices[k])])
    \o U16Pack(Len(m.submeshes))
    \o Flatten([k \in 1..Len(m.submeshes) |-> SubMeshToWriter(m.submeshes[k])])
    \o U16Pack(0)

(* the objects save_mesh is given *)
FaceA == Face("", <<<<F0, F0, F0>>, <<F1, F0, F0>>, <<F0, F2, F0>>>>, <<F0, F0, F1>>)
FaceB == Face("", <<<<F1, F0, F0>>, <<F0, F2, F0>>, <<F1, F2, F0>>>>, <<F0, F0, F1>>)
FaceG == Face("MATERIALglass", <<<<F0, F0, F0>>, <<F0, F1, F0>>, <<F0, F0, F2>>>>,
              <<F1, F0, F0>>)
FacePool == {FaceA, FaceB, FaceG}

RECURSIVE FaceLists(_)
FaceLists(n) ==
  IF n = 0 THEN {<<>>}
  ELSE FaceLists(n - 1) \cup {Append(l, f) : l \in FaceLists(n - 1), f \in FacePool}

ObjectLists == {<<[name |-> <<111>>, faces |-> l]>> : l \in FaceLists(MaxFaces)}

InitSave ==
  /\ impl = "mesh_struct"
  /\ MeshIdle
  /\ phys = PhysIdle
  /\ tree = TreeIdle /\ anim = AnimIdle /\ rbm = RbmIdle /\ MoreIdle
  /\ save = SaveIdle

(* a call of save_mesh, up to the end of the loop over the objects; the    *)
(* lists of _PolygonOptimizer are those of the class, not made anew        *)
SaveCollect ==
  /\ save.pc \in {"idle", "done"} /\ Len(save.calls) < MaxCalls
  /\ \E objects \in ObjectLists, name_mode \in {"NONE", "OBJECT"} :
       save' = [save EXCEPT !.pc = "shaders", !.objects = objects, !.name_mode = name_mode,
                            !.submesh_triangles = SubmeshTriangles(objects),
                            !.submesh_names = SubmeshNames(objects, name_mode),
                            !.shader_id = 0, !.submeshes = <<>>]
  /\ UNCHANGED notSave

(* variant: every submesh starts at index 0 *)
SaveShaderStartsAtZero ==
  /\ save.pc = "shaders" /\ save.shader_id < 4
  /\ LET triangles == save.submesh_triangles[save.shader_id]
         r == AddTriangleVertices(save, NoValue, NoValue, Flatten(triangles), 1)
     IN save' = [r.o EXCEPT
                   !.shader_id = @ + 1,
                   !.submeshes =
                      IF r.bounds_min = NoValue \/ r.bounds_max = NoValue THEN @
                      ELSE Append(@, SubMesh(0, 3 * Len(triangles),
                                             save.shader_id, r.bounds_min, r.bounds_max,
                                             save.submesh_names[save.shader_id]))]
  /\ UNCHANGED notSave

(* one iteration of: for shader_id in range(4) *)
SaveShader ==
  /\ save.pc = "shaders" /\ save.shader_id < 4
  /\ LET triangles == save.submesh_triangles[save.shader_id]
         index_buffer_start == Len(save.indices)
         r == AddTriangleVertices(save, NoValue, NoValue, Flatten(triangles), 1)
     IN save' = [r.o EXCEPT
                   !.shader_id = @ + 1,
                   !.submeshes =
                      IF r.bounds_min = NoValue \/ r.bounds_max = NoValue THEN @
                      ELSE Append(@, SubMesh(index_buffer_start, 3 * Len(triangles),
                                             save.shader_id, r.bounds_min, r.bounds_max,
                                             save.submesh_names[save.shader_id]))]
  /\ UNCHANGED notSave

(* with open(filepath, 'wb') as f: Mesh(...).to_writer(f) *)
SaveWrite ==
  /\ save.pc = "shaders" /\ save.shader_id = 4
  /\ LET m == MeshValue(save.vertices, save.indices, save.submeshes)
     IN save' = [save EXCEPT
                   !.pc = "done",
                   !.calls = Append(@, [objects |-> save.objects,
                                        name_mode |-> save.name_mode,
                                        mesh |-> m, file |-> MeshToWriter(m)])]
  /\ UNCHANGED notSave

NextSave == SaveCollect \/ SaveShader \/ SaveWrite

(* poly_opt.add_vertex(vertex) on an optimizer that starts empty; `added`  *)
(* keeps the vertices passed so far                                        *)
OptimizerAddVertex ==
  /\ save.pc = "idle" /\ Len(save.added) < MaxAdds
  /\ \E vertex \in Range(TriangleOf(FaceA)) \cup Range(TriangleOf(FaceG)) :
       save' = [AddVertex(save, vertex) EXCEPT !.added = Append(@, vertex)]
  /\ UNCHANGED notSave

NextOptimizer == OptimizerAddVertex

SpecOptimizer == InitSave /\ [][NextOptimizer]_vars

SpecSave == InitSave /\ [][NextSave]_vars

(* ---------------- to_blender_vec and from_blender_vec ----------------- *)
(* the floats 0.0, 1.0, 2.0 and -1.0 as components *)
FloatPool == {F0, F1, F2, FM1}

InitConv ==
  /\ impl = "data_struct"
  /\ MeshIdle
  /\ phys = PhysIdle
  /\ tree = TreeIdle /\ anim = AnimIdle /\ rbm = RbmIdle /\ save = SaveIdle
  /\ bld = BldIdle /\ pio = PioIdle
  /\ \E x \in FloatPool, y \in FloatPool, z \in FloatPool :
       \/ conv = [ConvIdle EXCEPT !.pc = "format", !.arg = Vec3(x, y, z)]
       \/ conv = [ConvIdle EXCEPT !.pc = "host", !.arg = <<x, y, z>>]

notConv == <<impl, m0, src, stage, rd, wr, keep, phys, tree, anim, rbm, save, bld, pio>>

(* to_blender_vec(v) of a vector of the format *)
ConvToBlender ==
  /\ conv.pc = "format"
  /\ conv' = [conv EXCEPT !.pc = "format_out", !.out = ToBlenderVec(conv.arg)]
  /\ UNCHANGED notConv

(* from_blender_vec of the vector to_blender_vec returned *)
ConvBackToFormat ==
  /\ conv.pc = "format_out"
  /\ conv' = [conv EXCEPT !.pc = "format_back", !.back = FromBlenderVec(conv.out)]
  /\ UNCHANGED notConv

(* from_blender_vec(w) of a vector of the host *)
ConvFromBlender ==
  /\ conv.pc = "host"
  /\ conv' = [conv EXCEPT !.pc = "host_out", !.out = FromBlenderVec(conv.arg)]
  /\ UNCHANGED notConv

(* to_blender_vec of the vector from_blender_vec returned *)
ConvBackToHost ==
  /\ conv.pc = "host_out"
  /\ conv' = [conv EXCEPT !.pc = "host_back", !.back = ToBlenderVec(conv.out)]
  /\ UNCHANGED notConv

NextConv == ConvToBlender \/ ConvBackToFormat \/ ConvFromBlender \/ ConvBackToHost

SpecConv == InitConv /\ [][NextConv]_vars

(* -------------- _ObjectMaterialBuilder, call after call --------------- *)
(* the vertex lists and index lists add_submesh is given: two colours that *)
(* are no override colour and one that is; an empty list; an index list of *)
(* a length that is no multiple of 3; an index that is no vertex           *)
ColourA == Color(10, 20, 30, 255)
ColourB == Color(1, 2, 3, 4)
BuilderVertexLists ==
  {<<>>,
   <<MeshVertex(Vec3(F0, F0, F0), ColourA, Vec3(F0, F0, F1)),
     MeshVertex(Vec3(F1, F0, F0), ColourB, Vec3(F0, F0, F1)),
     MeshVertex(Vec3(F0, F2, F0), OVERRIDE_COLOR_1, Vec3(F0, F0, F1))>>,
   <<MeshVertex(Vec3(F0, F0, F2), ColourB, Vec3(F0, F1, F0)),
     MeshVertex(Vec3(F1, F0, F2), ColourA, Vec3(F0, F1, F0)),
     MeshVertex(Vec3(F0, F1, F2), ColourA, Vec3(F0, F1, F0))>>}
BuilderIndexLists ==
  {<<>>, <<0, 1, 2>>, <<1, 2, 0, 2, 0, 1>>, <<0, 1>>, <<0, 1, 2, 0>>, <<0, 1, 3>>}
BuilderShaderIds == {0, 1, 2}

InitBuilder ==
  /\ impl = "data_struct"
  /\ MeshIdle
  /\ phys = PhysIdle
  /\ tree = TreeIdle /\ anim = AnimIdle /\ rbm = RbmIdle /\ save = SaveIdle
  /\ conv = ConvIdle /\ pio = PioIdle
  /\ bld = [BldIdle EXCEPT !.pc = "ready", !.builder = NewBuilder("name")]

notBld == <<impl, m0, src, stage, rd, wr, keep, phys, tree, anim, rbm, save, conv, pio>>

(* obj_builder.add_submesh(shader_id, vertices, indices): the builder as   *)
(* the call leaves it, whether it returns or raises                        *)
BuilderAddSubmesh ==
  /\ bld.pc = "ready" /\ Len(bld.calls) < MaxSubmeshCalls
  /\ \E shader_id \in BuilderShaderIds, vs \in BuilderVertexLists, is \in BuilderIndexLists :
       LET r == AddSubmesh(bld.builder, shader_id, vs, is)
           call == [shader_id |-> shader_id, vertices |-> vs, indices |-> is,
                    i_offset |-> Len(bld.builder.vertices),
                    t_offset |-> Len(bld.builder.triangles)]
       IN bld' = [bld EXCEPT !.pc = IF r.err = "none" THEN "ready" ELSE "failed",
                             !.before = bld.builder, !.builder = r.builder,
                             !.call = call, !.err = r.err,
                             !.calls = Append(@, call)]
  /\ UNCHANGED notBld

NextBuilder == BuilderAddSubmesh

SpecBuilder == InitBuilder /\ [][NextBuilder]_vars

(* ----------------------- save_phys and load_phys ---------------------- *)
(* A face of an evaluated mesh after the cuts along the grid and the       *)
(* triangulation: the coordinates of its three vertices as Blender vectors *)
(* and its centre, in whole metres                                         *)
PhysFace(co, center) == [co |-> co, center |-> center]

(* voxel_key: d = face.center - grid_origin, each component floor-divided  *)
(* by the grid size                                                        *)
VoxelKey(face) ==
  <<(face.center[1] + 500) \div 128, (face.center[2] + 500) \div 128,
    (face.center[3] + 1000) \div 128>>

(* the order of sorted(keys, key=lambda k: (k[0], k[2], k[1])) *)
KeyBefore(a, b) ==
  \/ a[1] < b[1]
  \/ a[1] = b[1] /\ a[3] < b[3]
  \/ a[1] = b[1] /\ a[3] = b[3] /\ a[2] < b[2]

RECURSIVE SortedKeys(_)
SortedKeys(keys) ==
  IF keys = {} THEN <<>>
  ELSE LET k == CHOOSE k \in keys : \A o \in keys \ {k} : KeyBefore(k, o)
       IN <<k>> \o SortedKeys(keys \ {k})

(* tuple(from_blender_vec(mesh.vertices[v].co) for v in face.vertices[:3]) *)
PhysTriangleOf(face) == [k \in 1..3 |-> FromBlenderVec(face.co[k])]

(* the lists one object appends to submesh_triangles *)
ObjectTriangles(obj, divide_grid) ==
  IF obj.type # "MESH" THEN <<>>
  ELSE IF divide_grid
  THEN LET keys == SortedKeys({VoxelKey(obj.faces[k]) : k \in 1..Len(obj.faces)})
       IN [i \in 1..Len(keys) |->
             LET own == SelectSeq(obj.faces, LAMBDA f : VoxelKey(f) = keys[i])
             IN [k \in 1..Len(own) |-> PhysTriangleOf(own[k])]]
  ELSE <<[k \in 1..Len(obj.faces) |-> PhysTriangleOf(obj.faces[k])]>>

(* submesh_triangles after the loop over ctx_objects *)
PhysSubmeshTriangles(objects, divide_grid) ==
  Flatten([o \in 1..Len(objects) |-> ObjectTriangles(objects[o], divide_grid)])

(* SubPhysMesh(vertices, []) of one list of triangles *)
SubPhysOf(triangles) == SubPhysMesh(Flatten(triangles), <<>>)

(* variant: the triangles are taken from the stored indices when there are *)
(* some                                                                    *)
LoadTrianglesStored(sub_phys) ==
  IF Len(sub_phys.indices) >= 3
  THEN <<<<sub_phys.indices[1].v[1], sub_phys.indices[2].v[1], sub_phys.indices[3].v[1]>>>>
  ELSE [k \in 1..(Len(sub_phys.vertices) \div 3) |-> <<3 * k - 3, 3 * k - 2, 3 * k - 1>>]

(* [(i - 2, i - 1, i) for i in range(2, len(sub_phys.vertices), 3)] *)
LoadTriangles(sub_phys) ==
  LET n == Len(sub_phys.vertices)
      is == {i \in 2..(n - 1) : (i - 2) % 3 = 0}
  IN [k \in 1..Cardinality(is) |->
        LET i == CHOOSE i \in is : Cardinality({j \in is : j < i}) = k - 1
        IN <<i - 2, i - 1, i>>]

(* the objects save_phys is given and the files load_phys is given *)
PhysFaceP ==
  PhysFace(<<<<F0, F0, F0>>, <<F1, F0, F0>>, <<F0, F2, F0>>>>, <<0, 0, 0>>)
PhysFaceQ ==
  PhysFace(<<<<F1, F0, F0>>, <<F0, F2, F0>>, <<F1, F2, FM1>>>>, <<0, 0, 200>>)
PhysFaceR ==
  PhysFace(<<<<F2, F0, F0>>, <<F0, F2, F0>>, <<F0, F0, F2>>>>, <<0, 200, 0>>)
PhysFaceLists ==
  {<<>>, <<PhysFaceP>>, <<PhysFaceP, PhysFaceQ>>, <<PhysFaceQ, PhysFaceP>>,
   <<PhysFaceR, PhysFaceP, PhysFaceQ, PhysFaceR>>}
PhysObjects ==
  {[type |-> "MESH", faces |-> l] : l \in PhysFaceLists}
    \cup {[type |-> "EMPTY", faces |-> <<>>]}
StoredSubs ==
  {SubPhysMesh([i \in 1..n |-> Vec3(F1, IF i % 2 = 1 THEN F2 ELSE F0, F0)],
               IF st THEN <<PyInt(2), PyInt(1), PyInt(0)>> ELSE <<>>) :
     n \in 0..MaxLoadVerts, st \in BOOLEAN}

InitPhysIO ==
  /\ impl = "data_struct"
  /\ MeshIdle
  /\ tree = TreeIdle /\ anim = AnimIdle /\ rbm = RbmIdle /\ save = SaveIdle
  /\ conv = ConvIdle /\ bld = BldIdle
  /\ \E s \in BOOLEAN :
       \/ /\ \E objects \in SeqsUpTo(PhysObjects, MaxPhysObjects), dg \in BOOLEAN :
               pio = [PioIdle EXCEPT !.pc = "collect", !.objects = objects,
                                     !.divide_grid = dg, !.name = "name"]
          /\ phys = [PhysIdle EXCEPT !.strict = s]
       \/ /\ pio = [PioIdle EXCEPT !.pc = "file", !.name = "name"]
          /\ \E sps \in SeqsUpTo(StoredSubs, MaxPhysSubs) :
               phys = [PhysIdle EXCEPT !.stage = "write0", !.strict = s,
                                       !.m0 = PhysicsMeshValue(sps),
                                       !.wval = PhysicsMeshValue(sps), !.wpc = "header"]

notPio == <<impl, m0, src, stage, rd, wr, keep, tree, anim, rbm, save, conv, bld>>

(* save_phys up to the end of the loop over ctx_objects *)
SavePhysCollect ==
  /\ pio.pc = "collect"
  /\ pio' = [pio EXCEPT !.pc = "build",
                        !.submesh_triangles =
                           PhysSubmeshTriangles(pio.objects, pio.divide_grid)]
  /\ UNCHANGED <<phys, notPio>>

(* the loop that makes the SubPhysMesh values; PhysicsMesh(...).to_writer  *)
(* is about to run                                                         *)
SavePhysBuild ==
  /\ pio.pc = "build"
  /\ LET v == PhysicsMeshValue([i \in 1..Len(pio.submesh_triangles) |->
                                  SubPhysOf(pio.submesh_triangles[i])])
     IN phys' = [phys EXCEPT !.stage = "write0", !.m0 = v, !.wval = v, !.wpc = "header"]
  /\ pio' = [pio EXCEPT !.pc = "write"]
  /\ UNCHANGED notPio

(* load_phys after PhysicsMesh.from_reader has returned: one object per    *)
(* sub-mesh, of the vertices as Blender vectors and the triangles          *)
LoadPhysBuild ==
  /\ pio.pc \in {"write", "file"}
  /\ phys.stage = "parse1" /\ phys.pc = "done"
  /\ LET subs == phys.result.sub_phys_meshes
     IN pio' = [pio EXCEPT
                  !.pc = "loaded",
                  !.made =
                     [i \in 1..Len(subs) |->
                        [name |-> IF Len(subs) = 1 THEN <<pio.name>> ELSE <<pio.name, i - 1>>,
                         vertices |-> [k \in 1..Len(subs[i].vertices) |->
                                         ToBlenderVec(subs[i].vertices[k])],
                         triangles |-> LoadTriangles(subs[i])]]]
  /\ UNCHANGED <<phys, notPio>>

NextPhysIO ==
  \/ SavePhysCollect \/ SavePhysBuild
  \/ PhysWriteHeader \/ PhysWriteSub \/ PhysOpen
  \/ PhysReadMagic \/ PhysReadHeader \/ PhysReadSub
  \/ LoadPhysBuild

SpecPhysIO == InitPhysIO /\ [][NextPhysIO]_vars

(* ------------------- offsets of the format's fields ------------------- *)
HeaderSize == 14
OffIndexCount(nv) == HeaderSize + VertexSize * nv
OffIndex(nv, j) == OffIndexCount(nv) + 4 + 2 * (j - 1)
SubRecSize(nameLen) == 12 + 24 + 4 + nameLen + 12

RECURSIVE SumNameRecs(_, _)
SumNameRecs(subs, j) ==
  IF j = 0 THEN 0
  ELSE SubRecSize(Len(Utf8Encode(subs[j].name))) + SumNameRecs(subs, j - 1)

(* offset of submesh record j (1-based) in the file of a mesh with nv      *)
(* vertices, ni indices and the submeshes subs                             *)
OffSub(nv, ni, subs, j) == OffIndex(nv, ni + 1) + 2 + SumNameRecs(subs, j - 1)

FinishedParse1 == stage = "parse1" /\ pc \in {"done", "error"}
FinishedParse2 == stage = "parse2" /\ pc \in {"done", "error"}
FromFile == src # NoSrc
Uncut == FromFile /\ ~IsCut(src)
OnlyDefects(d) == Uncut /\ src.defs = d

(* ------------------------------- C1 ---------------------------------- *)
(* C1: a canonical Mesh value written by Mesh.to_writer and parsed back in *)
(* strict mode is accepted, and the Mesh returned equals the original.     *)
C1_RoundTrip ==
  (m0 # NoValue /\ FinishedParse1) => (pc = "done" /\ err = "none" /\ result = m0)

C1_Witness ==
  /\ m0 # NoValue /\ FinishedParse1 /\ result = m0
  /\ Len(m0.vertices) >= 2 /\ Len(m0.indices) >= 3 /\ Len(m0.submeshes) >= 2

(* ------------------------------- C2 ---------------------------------- *)
(* C2: a PhysicsMesh value written by PhysicsMesh.to_writer and parsed     *)
(* back in strict mode is returned equal to the original, and writing the  *)
(* parsed value again gives the same bytes.                                *)
C2_PhysRoundTrip ==
  /\ (phys.strict /\ phys.stage = "parse1" /\ phys.pc \in {"done", "error"}) =>
       (phys.pc = "done" /\ phys.result = phys.m0)
  /\ (phys.strict /\ phys.stage = "write1" /\ phys.wpc \in {"done", "error"}) =>
       (phys.wpc = "done" /\ phys.wbuf = phys.buf)

(* ------------------------------- C3 ---------------------------------- *)
(* C3: a file that is well formed but for h0 = 8 fails the strict parse    *)
(* with a format error and is returned by the non-strict parse as the mesh *)
(* laid out in it.                                                         *)
C3_StrictVersusNonStrict ==
  OnlyDefects({"h0"}) =>
    /\ FinishedParse1 => (pc = "error" /\ err = "ValueError" /\ site = "h0")
    /\ FinishedParse2 => (pc = "done" /\ result = src.base)

(* ------------------------------- C4 ---------------------------------- *)
(* C4: when the strict parse accepts a file, the non-strict parse of the   *)
(* same file makes the same reads at the same offsets and returns an equal *)
(* value.                                                                  *)
C4_NonStrictSameReads ==
  (FinishedParse2 /\ first.err = "none") =>
    (pc = "done" /\ result = first.result /\ log = first.log /\ pos = first.pos)

(* ------------------------------- C5 ---------------------------------- *)
(* C5: every index a strict parse keeps is below the vertex count, and a   *)
(* file whose index ji is out of range fails the strict parse; when no     *)
(* earlier field is wrong it fails at that index: the read of that index   *)
(* is the last read, ji - 1 indices are kept and no submesh is read.       *)
C5_IndexBound ==
  /\ (strict /\ Parsing) =>
       \A i \in 1..Len(indices) : 0 <= indices[i] /\ indices[i] < vertex_count
  /\ (strict /\ Parsing /\ pc = "done") =>
       \A i \in 1..Len(result.indices) :
          0 <= result.indices[i] /\ result.indices[i] < Len(result.vertices)
  /\ (Uncut /\ "idx" \in src.defs /\ FinishedParse1) =>
       /\ pc = "error" /\ result = NoValue
       /\ (src.defs \cap {"magic", "h0", "h1", "h3", "h4", "ic"} = {}) =>
            /\ err = "ValueError" /\ site = "index"
            /\ pos = OffIndex(Len(src.base.vertices), src.ji) + 2
            /\ log[Len(log)] = <<"index", OffIndex(Len(src.base.vertices), src.ji)>>
            /\ Len(indices) = src.ji - 1
            /\ submesh_count = 0 /\ submeshes = <<>>

C5_Witness ==
  /\ OnlyDefects({"idx"}) /\ src.ji = 2 /\ FinishedParse1
  /\ site = "index" /\ Len(indices) = 1

(* ------------------------------- C6 ---------------------------------- *)
(* C6: a Mesh returned by a strict parse has an index count that is a      *)
(* multiple of 3 and submeshes whose index_buffer_length is a multiple of  *)
(* 3.                                                                      *)
C6_TriangleCount ==
  (strict /\ Parsing /\ pc = "done") =>
    /\ Len(result.indices) % 3 = 0
    /\ \A j \in 1..Len(result.submeshes) :
         U32Mod3(result.submeshes[j].index_buffer_length) = 0

(* ------------------------------- C7 ---------------------------------- *)
(* C7: a file cut short inside a vertex record yields no Mesh, whether     *)
(* strict or not.                                                          *)
CutInVertex ==
  /\ FromFile /\ IsCut(src)
  /\ src.cut > HeaderSize /\ src.cut < OffIndexCount(Len(src.base.vertices))
  /\ (src.cut - HeaderSize) % VertexSize # 0

C7_TruncationFails ==
  (CutInVertex /\ Parsing) => (pc # "done" /\ result = NoValue)

(* ------------------------------- C8 ---------------------------------- *)
(* The fields of the format that a strict parse checks, and a name that    *)
(* does not decode, ranked in file order (all submesh fields of a source   *)
(* lie in its submesh js).                                                 *)
Listed == {"magic", "h0", "h1", "h3", "h4", "ic", "idx", "h2", "shader", "h6", "h8", "tail"}

Rank(d) ==
  CASE d = "magic" -> 1 [] d = "h0" -> 2 [] d = "h1" -> 3 [] d = "h3" -> 4
    [] d = "h4" -> 5 [] d = "ic" -> 6 [] d = "idx" -> 7 [] d = "h2" -> 8
    [] d = "shader" -> 9 [] d = "h6" -> 10 [] d = "utf8" -> 11 [] d = "h8" -> 12
    [] d = "tail" -> 13

FirstDefect(s) ==
  CHOOSE d \in s.defs \cap (Listed \cup {"utf8"}) :
    \A e \in s.defs \cap (Listed \cup {"utf8"}) : Rank(d) <= Rank(e)

ExpectedSite(d) ==
  CASE d = "ic" -> "index_count" [] d = "idx" -> "index" [] d = "shader" -> "shader_id"
    [] OTHER -> d

(* the cursor once the read that carries field d has been made *)
ExpectedPos(s, d, im) ==
  LET nv == Len(s.base.vertices)
      ni == Len(SrcIndices(s))
      subs == s.base.submeshes
      S == OffSub(nv, ni, subs, s.js)
  IN CASE d = "magic" -> 4
       [] d \in {"h0", "h1", "h3", "h4"} -> HeaderSize
       [] d = "ic" -> OffIndexCount(nv) + 4
       [] d = "idx" -> OffIndex(nv, s.ji) + 2
       [] d \in {"h2", "shader"} -> S + 12
       [] d = "h6" -> IF im = "data_struct" THEN S + 38 ELSE S + 40
       [] d = "h8" -> S + SubRecSize(Len(Utf8Encode(subs[s.js].name)))
       [] d = "tail" -> OffSub(nv, ni, subs, Len(subs) + 1) + 2

(* C8: in strict mode a file with a wrong magic tag, header field, index   *)
(* count, index, submesh reserved field, shader id, trailing vector or     *)
(* trailer yields no Mesh; the parse ends with an error, and when the      *)
(* first wrong field in file order is one of these the error is raised for *)
(* that field, with the cursor just behind the read that carried it and    *)
(* nothing read after it.                                                  *)
C8_FirstViolationAborts ==
  (Uncut /\ src.defs \cap Listed # {} /\ FinishedParse1) =>
    /\ pc = "error" /\ err # "none" /\ result = NoValue
    /\ FirstDefect(src) \in Listed =>
         /\ err = "ValueError"
         /\ site = ExpectedSite(FirstDefect(src))
         /\ pos = ExpectedPos(src, FirstDefect(src), impl)
         /\ log[Len(log)][2] < pos

C8_Witness ==
  /\ OnlyDefects({"shader", "h8"}) /\ src.js = 2 /\ FinishedParse1
  /\ pc = "error" /\ site = "shader_id"

(* ------------------------------- C9 ---------------------------------- *)
OneBytes == <<0, 0, 128, 63, 0, 0, 128, 63, 0, 0, 128, 63>>

(* C9: the bytes of a finished Mesh.to_writer start with "mesh" and the    *)
(* header 7, 1, len(vertices), 19, 0; every submesh record has 0 in both   *)
(* reserved uint16 fields and ends with the vector (1,1,1); the file ends  *)
(* with the uint16 0.                                                      *)
C9_CanonicalConstants ==
  (Writing /\ wpc = "done") =>
    LET nv == Len(wval.vertices)
        ni == Len(wval.indices)
        subs == wval.submeshes
    IN /\ Len(wbuf) = OffSub(nv, ni, subs, Len(subs) + 1) + 2
       /\ SubSeq(wbuf, 1, HeaderSize) =
            <<109, 101, 115, 104, 7, 0, 1, 0, nv % 256, nv \div 256, 19, 0, 0, 0>>
       /\ \A j \in 1..Len(subs) :
            LET S == OffSub(nv, ni, subs, j)
                E == OffSub(nv, ni, subs, j + 1)
            IN /\ SubSeq(wbuf, S + 9, S + 10) = <<0, 0>>
               /\ SubSeq(wbuf, S + 37, S + 38) = <<0, 0>>
               /\ SubSeq(wbuf, E - 11, E) = OneBytes
       /\ SubSeq(wbuf, Len(wbuf) - 1, Len(wbuf)) = <<0, 0>>

(* a Mesh parsed from a header that is not 7, 1, n, 19, 0 has been written *)
C9_Witness ==
  /\ stage = "write2" /\ wpc = "done"
  /\ hdr[1] # 7 /\ hdr[2] # 1 /\ hdr[4] # 19 /\ hdr[5] # 0
  /\ Len(wval.vertices) > 0

(* ------------------------------- C10 --------------------------------- *)
(* C10 as stated: the bytes written from the Mesh that a strict parse      *)
(* returned are the bytes of the file parsed.                              *)
C10_ByteIdentical ==
  (stage = "write1" /\ wpc = "done") => wbuf = buf

(* C10 amended: the bytes written from the Mesh that a strict parse        *)
(* returned are the bytes of the file that the parse consumed, from the    *)
(* magic tag to the trailer; they are the whole file when no byte follows  *)
(* the trailer.                                                            *)
C10_ConsumedBytesIdentical ==
  (stage = "write1" /\ wpc = "done") =>
    /\ wbuf = SubSeq(buf, 1, pos)
    /\ (pos = Len(buf) => wbuf = buf)

C10_Witness ==
  /\ stage = "write1" /\ wpc = "done"
  /\ FromFile /\ "junk" \in src.defs /\ Len(src.base.submeshes) >= 2
  /\ pos < Len(buf)

(* ------------------------------- C11 --------------------------------- *)
(* the file of the example: "mesh", u16(7, 1, 1, 19, 0), one vertex record, *)
(* u32(3), the indices 0, 0, 0, u16(0) submeshes and the trailer u16(0)    *)
ExampleFile ==
  MagicMesh \o <<7, 0, 1, 0, 1, 0, 19, 0, 0, 0>> \o RawVertex(VB)
    \o <<3, 0, 0, 0>> \o <<0, 0, 0, 0, 0, 0>> \o <<0, 0>> \o <<0, 0>>

(* C11: a strict parse of a file in the canonical layout ("mesh", the      *)
(* header u16(7, 1, n, 19, 0), n vertex records, u32(k), k uint16 indices, *)
(* u16(s), s submesh records, u16(0)) returns the Mesh whose vertices are  *)
(* the n records in file order, whose indices are the k values in file     *)
(* order and whose submeshes are the s records in file order; the file of  *)
(* one vertex, u32(3), indices 0, 0, 0 and no submesh gives                *)
(* Mesh([that vertex], [0, 0, 0], []).                                     *)
C11_CanonicalLayoutDecoded ==
  (OnlyDefects({}) /\ FinishedParse1) =>
    /\ pc = "done" /\ err = "none"
    /\ result.vertices = src.base.vertices
    /\ result.indices = src.base.indices
    /\ result.submeshes = src.base.submeshes
    /\ (buf = ExampleFile => result = MeshValue(<<VB>>, <<0, 0, 0>>, <<>>))

C11_Witness ==
  /\ OnlyDefects({}) /\ FinishedParse1 /\ buf = ExampleFile
  /\ result = MeshValue(<<VB>>, <<0, 0, 0>>, <<>>)

(* ------------------------- C12 .. C15: bone tree ---------------------- *)

RootsOf(nodes) == {id \in NodeIds(nodes) : Node(nodes, id).parent_index = -1}

(* the child references of a bone set: <<p, k>> is entry k of p's list *)
ChildRefs(nodes) ==
  UNION {{<<p, k>> : k \in 1..Len(Node(nodes, p).child_indices)} : p \in NodeIds(nodes)}

RefTarget(nodes, r) == Node(nodes, r[1]).child_indices[r[2]]
Dangling(nodes, r) == RefTarget(nodes, r) \notin NodeIds(nodes)
Mismatched(nodes, r) ==
  /\ ~Dangling(nodes, r)
  /\ Node(nodes, RefTarget(nodes, r)).parent_index # r[1]

(* the bones reached from the set S in at most k steps along child lists *)
RECURSIVE ReachedByChildLists(_, _, _)
ReachedByChildLists(nodes, S, k) ==
  IF k = 0 THEN S
  ELSE ReachedByChildLists(nodes,
         S \cup {c \in NodeIds(nodes) :
                   \E p \in S : c \in Range(Node(nodes, p).child_indices)},
         k - 1)

ReachableFromRoot(nodes) == ReachedByChildLists(nodes, RootsOf(nodes), Len(nodes))

(* one rooted, fully connected, parent-consistent tree *)
IsRootedTree(nodes) ==
  /\ Cardinality(RootsOf(nodes)) = 1
  /\ \A r \in ChildRefs(nodes) : ~Dangling(nodes, r) /\ ~Mismatched(nodes, r)
  /\ Cardinality(ChildRefs(nodes)) = Len(nodes) - 1
  /\ ReachableFromRoot(nodes) = NodeIds(nodes)

TreeDone == tree.pc = "done"
Rejected(msg) == tree.ret = <<FALSE, msg>>

(* C12: validate_connected_tree returns success exactly for the bone sets  *)
(* that form one rooted, fully connected, parent-consistent tree (one bone *)
(* with parent_index -1, every child reference names an existing bone      *)
(* whose parent_index is the referring bone, as many child references as   *)
(* bones minus 1, every bone reachable from the root through child lists), *)
(* failure for every other set, and success for the 4 bones with parents   *)
(* [-1, 0, 0, 1] and children {0:[1,2], 1:[3], 2:[], 3:[]}.                 *)
C12_TreeValidatorExact ==
  TreeDone =>
    /\ tree.ret \in {<<TRUE, "">>} \cup ({FALSE} \X {"multiple roots",
         "reference to nonexistent node", "inconsistent parent-child relationships",
         "not a tree", "not connected"})
    /\ tree.ret[1] = IsRootedTree(tree.nodes)
    /\ (tree.nodes = ExampleBones => tree.ret[1])

C12_Witness == TreeDone /\ tree.nodes = ExampleBones /\ tree.ret = <<TRUE, "">>

(* C13 as stated: two bones with parent_index -1 are rejected as           *)
(* multiple-roots ('multiple roots'); with one root, a child list naming   *)
(* an index that is no bone is rejected as dangling-child-reference        *)
(* ('reference to nonexistent node'); with one root, bone p listing child  *)
(* c whose parent_index is not p is rejected as parent-child-mismatch      *)
(* ('inconsistent parent-child relationships').                            *)
C13_FailureNamed ==
  TreeDone =>
    /\ Cardinality(RootsOf(tree.nodes)) = 2 => Rejected("multiple roots")
    /\ (Cardinality(RootsOf(tree.nodes)) = 1
          /\ \E r \in ChildRefs(tree.nodes) : Dangling(tree.nodes, r))
         => Rejected("reference to nonexistent node")
    /\ (Cardinality(RootsOf(tree.nodes)) = 1
          /\ \E r \in ChildRefs(tree.nodes) : Mismatched(tree.nodes, r))
         => Rejected("inconsistent parent-child relationships")

Offending(nodes) ==
  {r \in ChildRefs(nodes) : Dangling(nodes, r) \/ Mismatched(nodes, r)}

Before(r, q) == r[1] < q[1] \/ (r[1] = q[1] /\ r[2] <= q[2])

FirstOffending(nodes) ==
  CHOOSE r \in Offending(nodes) : \A q \in Offending(nodes) : Before(r, q)

(* C13 amended: two bones with parent_index -1 are rejected as             *)
(* multiple-roots; a bone set with one root and an offending child         *)
(* reference is rejected by the first offending reference in bone order,   *)
(* then child-list order: as dangling-child-reference when it names an     *)
(* index that is no bone, as parent-child-mismatch when it names a bone    *)
(* whose parent_index is not the referring bone.                           *)
C13_FirstFailureNamed ==
  TreeDone =>
    /\ Cardinality(RootsOf(tree.nodes)) = 2 => Rejected("multiple roots")
    /\ (Cardinality(RootsOf(tree.nodes)) = 1 /\ Offending(tree.nodes) # {}) =>
         IF Dangling(tree.nodes, FirstOffending(tree.nodes))
         THEN Rejected("reference to nonexistent node")
         ELSE Rejected("inconsistent parent-child relationships")

C13_Witness ==
  /\ TreeDone /\ Cardinality(RootsOf(tree.nodes)) = 1
  /\ \E r \in ChildRefs(tree.nodes) : Dangling(tree.nodes, r)
  /\ Rejected("inconsistent parent-child relationships")

(* C14: 3 bones with exactly one root, no dangling or mismatched child     *)
(* reference and bone 2 not reachable from the root through child lists    *)
(* are rejected as disconnected ('not connected').                         *)
C14_DisconnectedNamed ==
  (/\ TreeDone /\ Len(tree.nodes) = 3
   /\ Cardinality(RootsOf(tree.nodes)) = 1
   /\ Offending(tree.nodes) = {}
   /\ 2 \notin ReachableFromRoot(tree.nodes))
    => Rejected("not connected")

(* the links of a bone set: from a bone to the bones its child list names  *)
(* and to the bones that name it as their parent                           *)
Linked(nodes, b) ==
  {c \in NodeIds(nodes) :
     c \in Range(Node(nodes, b).child_indices) \/ Node(nodes, c).parent_index = b}

RECURSIVE ReachedByLinks(_, _, _)
ReachedByLinks(nodes, S, k) ==
  IF k = 0 THEN S
  ELSE ReachedByLinks(nodes, S \cup UNION {Linked(nodes, b) : b \in S}, k - 1)

HasCycle(nodes) ==
  \E b \in NodeIds(nodes) : b \in ReachedByLinks(nodes, Linked(nodes, b), Len(nodes))

(* the call goes on while it has not returned, and the bones popped from   *)
(* the stack are distinct until the one that makes it return               *)
VisitsOnce ==
  \A a, b \in 1..Len(tree.order) :
    (a < b /\ tree.order[a] = tree.order[b]) =>
      (b = Len(tree.order) /\ TreeDone /\ ~tree.ret[1])

(* C15: validate_connected_tree terminates on every finite bone set,       *)
(* also when the parent/child links form a cycle, with or without a root;  *)
(* it returns failure for every set that contains a cycle, and it never    *)
(* visits a bone more than once without returning.                         *)
C15_TerminatesRejectingCycles ==
  /\ <>TreeDone
  /\ [](VisitsOnce /\ ((TreeDone /\ HasCycle(tree.nodes)) => ~tree.ret[1]))

C15_Witness ==
  /\ TreeDone /\ HasCycle(tree.nodes) /\ Cardinality(RootsOf(tree.nodes)) = 1
  /\ Len(tree.order) > 0 /\ ~tree.ret[1]

(* ---- load_anim ---- *)

(* the bone links of the parsed file, once there is one *)
ParsedLinks == LinksOf(anim.result.bones)

(* a step of load_anim after the validation has been made: the mesh       *)
(* object, the armature, the transform resolution or an edit bone          *)
LaterStepMade ==
  \/ anim.mesh_obj # NoValue \/ anim.arm_obj \/ anim.edit_bones # <<>>
  \/ rbm.pc # "idle"
  \/ anim.pc \in {"build_mesh", "armature", "resolve", "resolving", "link_bones",
                  "weights", "bone_sizes", "done"}

(* validate_connected_tree has returned for the bones of the parsed file *)
ValidatedAs(ok) ==
  /\ anim.result # NoValue
  /\ TreeDone /\ tree.nodes = ParsedLinks /\ tree.ret[1] = ok

(* C16: load_anim runs validate_connected_tree on the parsed bones with    *)
(* strict_mode on and off alike, after the parse and before any mesh       *)
(* object, armature, edit bone or bone transform is made; when the bones   *)
(* are not a valid tree the load fails there and none of the later steps   *)
(* has happened.                                                           *)
C16_ValidationAlwaysEnforced ==
  /\ LaterStepMade => (ValidatedAs(TRUE) /\ IsRootedTree(ParsedLinks))
  /\ (anim.pc = "validating" /\ TreeDone) => tree.nodes = ParsedLinks
  /\ (anim.result # NoValue /\ ~IsRootedTree(ParsedLinks)) =>
       /\ ~LaterStepMade
       /\ anim.pc \in {"parsed", "validating", "error"}
       /\ anim.pc = "error" => (anim.site = "bones" /\ ValidatedAs(FALSE))

C16_Witness ==
  /\ ~anim.strict /\ anim.pc = "error" /\ anim.site = "bones"
  /\ ValidatedAs(FALSE) /\ ~IsRootedTree(ParsedLinks)
  /\ Len(anim.result.bones) = 2 /\ Len(anim.result.meshes) > 0

(* ---- AnimMesh.from_reader ---- *)

(* the parse ended by the exception of a size test of AnimMesh.from_reader *)
RejectedForSize ==
  /\ anim.pc = "error" /\ anim.err = "Exception"
  /\ anim.site \in {"vertices_size", "indices_size"}

(* C19: the size constraints of the animation parser are strict-mode-only  *)
(* checks: with strict = False, Anim.from_reader does not reject a mesh    *)
(* whose vertex byte size is no multiple of 52 or whose index byte size is *)
(* no multiple of 12 for that reason; with strict = True it rejects both.  *)
C19_SizeChecksStrictOnly ==
  /\ (~anim.strict /\ anim.src.defs \in {{"nomagic", "vsize"}, {"nomagic", "isize"}}) =>
       ~RejectedForSize
  /\ (anim.strict /\ anim.pc = "error" /\ anim.src.defs = {"vsize"}) =>
       (anim.err = "Exception" /\ anim.site = "vertices_size")
  /\ (anim.strict /\ anim.pc = "error" /\ anim.src.defs = {"isize"}) =>
       (anim.err = "Exception" /\ anim.site = "indices_size")
  /\ (anim.strict /\ anim.src.defs \in {{"vsize"}, {"isize"}}) => anim.pc # "parsed"

(* ---- Mesh: submesh ranges ---- *)

(* index_buffer_start + index_buffer_length <= n, on uint32 values *)
RangeInside(sm, n) ==
  /\ ~U32Below(n, sm.index_buffer_start)
  /\ ~U32Below(n - sm.index_buffer_start, sm.index_buffer_length)

(* C20: every Mesh returned by a strict parse has, for each submesh,       *)
(* index_start + index_count <= len(indices): every submesh's index range  *)
(* lies inside the index buffer.                                           *)
C20_SubmeshRangesInside ==
  (Parsing /\ strict /\ pc = "done") =>
     \A k \in 1..Len(result.submeshes) :
        RangeInside(result.submeshes[k], Len(result.indices))

(* ---- _resolve_bone_matrices ---- *)

(* the composition of the local matrices on the path from the root to bone *)
(* k of the tree t, parent side first                                      *)
RECURSIVE PathProduct(_, _)
PathProduct(t, k) ==
  IF t[k] = 0 THEN Factor(k) ELSE MatMul(PathProduct(t, t[k]), Factor(k))

(* the list the running call was given: the declared one, then parent first *)
CurrentPerm ==
  IF rbm.first = NoValue THEN rbm.declared.perm ELSE ParentFirst(Len(rbm.declared.t))

(* C17: for every valid bone tree and every order in which its bones are   *)
(* declared, a child before its parent included, _resolve_bone_matrices    *)
(* gives each bone the composition of the local transforms on its path     *)
(* from the root, parent side first, the same as for the parent-first      *)
(* declaration of the tree.                                                *)
C17_ResolutionOrderIndependent ==
  (rbm.pc = "done" /\ rbm.declared # NoValue) =>
     LET t == rbm.declared.t
         n == Len(t)
     IN /\ DOMAIN rbm.resolved = 0..(n - 1)
        /\ \A k \in 1..n : rbm.resolved[CurrentPerm[k] - 1] = PathProduct(t, k)
        /\ rbm.first # NoValue =>
             \A k \in 1..n : rbm.first.resolved[rbm.declared.perm[k] - 1] = rbm.resolved[k - 1]

C17_Witness ==
  /\ rbm.pc = "done" /\ rbm.declared # NoValue /\ rbm.first # NoValue
  /\ LET t == rbm.declared.t
         perm == rbm.declared.perm
     IN /\ Len(t) >= 3
        /\ \E k \in 2..Len(t) : perm[k] < perm[t[k]] /\ t[k] # 1
        /\ \A k \in 1..Len(t) : rbm.first.resolved[perm[k] - 1] = PathProduct(t, k)

(* ---- save_mesh ---- *)

(* the faces of the objects a finished call was given *)
FacesOf(c) == Flatten([o \in 1..Len(c.objects) |-> c.objects[o].faces])

(* C18: the export keeps no state between calls: the file a save_mesh call *)
(* writes depends only on the objects and options of that call, so two     *)
(* calls in one process with the same input write identical files, and no  *)
(* vertex or index collected by an earlier call is in the vertex or index  *)
(* buffer of a later one.                                                  *)
C18_SaveMeshStateless ==
  /\ \A a, b \in 1..Len(save.calls) :
       (save.calls[a].objects = save.calls[b].objects
          /\ save.calls[a].name_mode = save.calls[b].name_mode)
         => save.calls[a].file = save.calls[b].file
  /\ \A a \in 1..Len(save.calls) :
       LET c == save.calls[a]
       IN /\ Len(c.mesh.indices) = 3 * Len(FacesOf(c))
          /\ Range(c.mesh.vertices) \subseteq
               UNION {Range(TriangleOf(FacesOf(c)[k])) : k \in 1..Len(FacesOf(c))}

(* ---- to_blender_vec, from_blender_vec ---- *)

(* C21: the coordinate transform swaps the second and third components,    *)
(* leaves x unchanged and is its own inverse: from_blender_vec of          *)
(* to_blender_vec(v) is v for every vector v of the format, and            *)
(* to_blender_vec of from_blender_vec(w) is w for every host vector w.     *)
C21_SwapIsOwnInverse ==
  /\ conv.pc \in {"format_out", "format_back"} =>
       conv.out = <<conv.arg.x, conv.arg.z, conv.arg.y>>
  /\ conv.pc = "format_back" => conv.back = conv.arg
  /\ conv.pc \in {"host_out", "host_back"} =>
       (conv.out.x = conv.arg[1] /\ conv.out.y = conv.arg[3] /\ conv.out.z = conv.arg[2])
  /\ conv.pc = "host_back" => conv.back = conv.arg

C21_Witness ==
  /\ conv.pc = "format_back" /\ conv.back = conv.arg
  /\ conv.arg.x # conv.arg.y /\ conv.arg.y # conv.arg.z /\ conv.arg.x # conv.arg.z

(* ---- _resolve_bone_matrices: the work queue ---- *)

BoneIndices == 0..(Len(rbm.bone_parent_indices) - 1)

(* the bone at the head of the queue has a parent with no resolved matrix *)
HeadWaits ==
  /\ rbm.pc = "loop" /\ Len(rbm.q) > 0
  /\ rbm.bone_parent_indices[Head(rbm.q) + 1] # -1
  /\ rbm.bone_parent_indices[Head(rbm.q) + 1] \notin DOMAIN rbm.resolved

(* no bone but the root has a matrix while its parent has none *)
ResolvedAfterParent ==
  \A i \in DOMAIN rbm.resolved :
     rbm.bone_parent_indices[i + 1] = -1
       \/ rbm.bone_parent_indices[i + 1] \in DOMAIN rbm.resolved

(* every bone is in the queue, once, or has its matrix *)
NothingDropped ==
  /\ Range(rbm.q) \cup DOMAIN rbm.resolved = BoneIndices
  /\ Range(rbm.q) \cap DOMAIN rbm.resolved = {}
  /\ Cardinality(Range(rbm.q)) = Len(rbm.q)

(* C22: for every valid bone tree the work queue of _resolve_bone_matrices *)
(* becomes empty after finitely many steps with every bone index in the    *)
(* result; no bone but the root is given a matrix before its parent has    *)
(* one; a bone whose parent is not resolved yet is put back at the end of  *)
(* the queue and is not dropped.                                           *)
C22_QueueEmptiesInParentOrder ==
  /\ <>(rbm.pc = "done" /\ rbm.first # NoValue)
  /\ [](rbm.pc \in {"loop", "done"} => (ResolvedAfterParent /\ NothingDropped))
  /\ [](rbm.pc = "done" => (rbm.q = <<>> /\ DOMAIN rbm.resolved = BoneIndices))
  /\ [][HeadWaits => rbm'.q = Append(Tail(rbm.q), Head(rbm.q))]_vars

C22_Witness ==
  /\ HeadWaits /\ Len(rbm.q) >= 2
  /\ \E a, b \in 1..Len(rbm.q) : a < b /\ rbm.q[a] > rbm.q[b]
  /\ DOMAIN rbm.resolved # {}

(* ---- _ObjectMaterialBuilder.add_submesh ---- *)

(* C23: add_submesh called with an index list whose length is no multiple  *)
(* of 3 fails with an error before changing anything: vertices, triangles, *)
(* materials, polygon_material and the colour and material slot fields of  *)
(* the builder are after the failed call what they were before it.         *)
C23_BadLengthChangesNothing ==
  (bld.call # NoValue /\ Len(bld.call.indices) % 3 # 0) =>
     /\ bld.pc = "failed" /\ bld.err = "Exception"
     /\ bld.builder = bld.before

C23_Witness ==
  /\ bld.pc = "failed" /\ Len(bld.calls) = 2
  /\ Len(bld.call.indices) % 3 # 0 /\ bld.call.vertices # <<>>
  /\ bld.before.vertices # <<>> /\ bld.builder = bld.before

(* ---- _ObjectMaterialBuilder: what a run of calls leaves ---- *)

(* the call was given a vertex list that is not empty, an index list of a  *)
(* length that is a multiple of 3 and indices that are vertices of the list *)
WellFormedCall(c) ==
  /\ c.vertices # <<>> /\ Len(c.indices) % 3 = 0
  /\ \A k \in 1..Len(c.indices) : 0 <= c.indices[k] /\ c.indices[k] < Len(c.vertices)

AllCallsWellFormed ==
  /\ bld.pc = "ready"
  /\ \A k \in 1..Len(bld.calls) : WellFormedCall(bld.calls[k])

(* the triangles of the builder that call c added, by their place in       *)
(* builder.triangles                                                       *)
TrianglesOfCall(c) == (c.t_offset + 1)..(c.t_offset + Len(c.indices) \div 3)

(* the triangles added with shader 0, each with the colour of its first vertex *)
ColouredTriangles ==
  UNION {{<<t, bld.calls[k].vertices[bld.calls[k].indices[3 * (t - bld.calls[k].t_offset) - 2] + 1].color>> :
            t \in TrianglesOfCall(bld.calls[k])} :
         k \in {j \in 1..Len(bld.calls) : bld.calls[j].shader_id = 0}}

OverrideColours == {OVERRIDE_COLOR_1, OVERRIDE_COLOR_2, OVERRIDE_COLOR_3}

(* C27: after any run of successful add_submesh calls, each with a vertex  *)
(* list that is not empty, an index list of a length that is a multiple    *)
(* of 3 and every index below the length of its vertex list,               *)
(* polygon_material is as long as triangles, every entry of it is below    *)
(* len(materials), every triangle component is below len(vertices) of the  *)
(* builder, the triangles of a later submesh name no vertex of an earlier  *)
(* one, and two shader 0 triangles with the same first-vertex colour have  *)
(* the same material slot while different colours that are no override     *)
(* colour have different slots.                                            *)
C27_BuilderInvariant ==
  AllCallsWellFormed =>
    LET b == bld.builder
    IN /\ Len(b.polygon_material) = Len(b.triangles)
       /\ \A k \in 1..Len(b.polygon_material) :
            0 <= b.polygon_material[k] /\ b.polygon_material[k] < Len(b.materials)
       /\ \A k \in 1..Len(b.triangles) : \A j \in 1..3 :
            0 <= b.triangles[k][j] /\ b.triangles[k][j] < Len(b.vertices)
       /\ \A c \in 1..Len(bld.calls) : \A t \in TrianglesOfCall(bld.calls[c]) : \A j \in 1..3 :
            /\ b.triangles[t][j] >= bld.calls[c].i_offset
            /\ b.triangles[t][j] < bld.calls[c].i_offset + Len(bld.calls[c].vertices)
       /\ \A x, y \in ColouredTriangles :
            /\ x[2] = y[2] => b.polygon_material[x[1]] = b.polygon_material[y[1]]
            /\ (x[2] # y[2] /\ x[2] \notin OverrideColours /\ y[2] \notin OverrideColours)
                 => b.polygon_material[x[1]] # b.polygon_material[y[1]]

C27_Witness ==
  /\ AllCallsWellFormed /\ Len(bld.calls) = 2
  /\ bld.calls[1].shader_id = 1 /\ bld.calls[2].shader_id = 0
  /\ \E x, y \in ColouredTriangles : x[2] # y[2] /\ x[2] = ColourB /\ y[2] \in OverrideColours
  /\ Len(bld.builder.triangles) = 3 /\ Len(bld.builder.materials) = 3

(* ---- _PolygonOptimizer.add_vertex ---- *)

(* C25: starting from an empty _PolygonOptimizer, after any run of         *)
(* add_vertex calls the vertices list has no two equal vertices,           *)
(* len(indices) is the number of calls, every index is below               *)
(* len(vertices), and vertices[indices[k]] is the vertex passed to call k. *)
C25_DeduplicationLossless ==
  /\ \A a, b \in 1..Len(save.vertices) : save.vertices[a] = save.vertices[b] => a = b
  /\ Len(save.indices) = Len(save.added)
  /\ \A k \in 1..Len(save.indices) :
       /\ 0 <= save.indices[k] /\ save.indices[k] < Len(save.vertices)
       /\ save.vertices[save.indices[k] + 1] = save.added[k]

C25_Witness ==
  /\ Len(save.added) = 4 /\ Len(save.vertices) = 2
  /\ save.added[1] = save.added[3] /\ save.added[2] = save.added[4]
  /\ save.indices = <<0, 1, 0, 1>>

(* ---- submeshes written by save_mesh ---- *)

(* call k of save_mesh found the class's optimizer empty *)
StartsEmpty(k) == k = 1 \/ save.calls[k - 1].mesh.indices = <<>>

(* the number of faces of the call's objects with the shader sh *)
GroupSize(c, sh) ==
  Cardinality({k \in 1..Len(FacesOf(c)) : ShaderIdOf(FacesOf(c)[k].material) = sh})

RECURSIVE LengthSum(_, _)
LengthSum(ss, k) ==
  IF k = 0 THEN 0 ELSE LengthSum(ss, k - 1) + ss[k].index_buffer_length

(* C26: in the Mesh built by a save_mesh call that starts with an empty    *)
(* optimizer the submeshes are in ascending shader_id, at most one per     *)
(* shader_id in 0..3; a shader group with no triangle has no submesh; each *)
(* index_buffer_length is 3 times the number of triangles of its group;    *)
(* the first submesh starts at index 0, each next one starts where the     *)
(* previous one ends, and the lengths sum to len(indices).                 *)
C26_SubmeshLayout ==
  \A k \in 1..Len(save.calls) :
    StartsEmpty(k) =>
      LET c == save.calls[k]
          ss == c.mesh.submeshes
      IN /\ \A i \in 1..Len(ss) : ss[i].shader_id \in 0..3
         /\ \A i, j \in 1..Len(ss) : i < j => ss[i].shader_id < ss[j].shader_id
         /\ \A sh \in 0..3 :
              GroupSize(c, sh) = 0 => \A i \in 1..Len(ss) : ss[i].shader_id # sh
         /\ \A i \in 1..Len(ss) :
              ss[i].index_buffer_length = 3 * GroupSize(c, ss[i].shader_id)
         /\ Len(ss) > 0 => ss[1].index_buffer_start = 0
         /\ \A i \in 2..Len(ss) :
              ss[i].index_buffer_start =
                ss[i - 1].index_buffer_start + ss[i - 1].index_buffer_length
         /\ LengthSum(ss, Len(ss)) = Len(c.mesh.indices)

C26_Witness ==
  /\ Len(save.calls) >= 1
  /\ FacesOf(save.calls[1]) = <<FaceG, FaceA>>
  /\ Len(save.calls[1].mesh.submeshes) = 2
  /\ save.calls[1].mesh.submeshes[2].shader_id = 1
  /\ save.calls[1].mesh.submeshes[2].index_buffer_start = 3

(* ---- the bone weights of load_anim ---- *)

(* the (bone index, weight) pairs of the vertex at position i of the       *)
(* combined mesh                                                           *)
PairsOf(i) ==
  LET v == AllAnimVertices(anim.result.meshes)[i + 1]
  IN {<<IntOfFloat(v.bone_index_0), v.bone_weight_0>>,
      <<IntOfFloat(v.bone_index_1), v.bone_weight_1>>}

WeightsRegistered == anim.pc \in {"bone_sizes", "done"}

(* C29: a weight w > 0 of a vertex for bone index b is added to the vertex *)
(* group of bone b only, at the vertex's position in the combined mesh; a  *)
(* load that gets past the weights has no vertex with a bone index outside *)
(* 0 <= b < number of bones, negative indices included.                    *)
C29_WeightsReachNamedBone ==
  WeightsRegistered =>
    LET n == Len(anim.result.bones)
        positions == 0..(Len(AllAnimVertices(anim.result.meshes)) - 1)
    IN /\ \A i \in positions : \A p \in PairsOf(i) : 0 <= p[1] /\ p[1] < n
       /\ \A g \in 1..n : \A e \in anim.vertex_groups[g] :
            /\ e[1] \in positions
            /\ <<g - 1, e[2]>> \in PairsOf(e[1])

(* ---- the two modules' Mesh.from_reader ---- *)

(* the rest of Mesh.from_reader from the submesh records on, with the      *)
(* SubMesh class of module im: the submeshes of the Mesh returned, or a    *)
(* failure                                                                 *)
RECURSIVE SubMeshesFromReader(_, _, _, _, _, _)
SubMeshesFromReader(b, p, s, im, n, acc) ==
  IF Len(acc) < n
  THEN LET r == SubMeshFromReader(b, p, s, im)
       IN IF r.err # "none" THEN [ok |-> FALSE, submeshes |-> <<>>]
          ELSE SubMeshesFromReader(b, r.pos, s, im, n, Append(acc, r.value))
  ELSE IF ~Avail(b, p, 2) \/ (s /\ U16Unpack(Read(b, p, 2)) # 0)
       THEN [ok |-> FALSE, submeshes |-> <<>>]
       ELSE [ok |-> TRUE, submeshes |-> acc]

BeforeSubmeshes == Parsing /\ pc = "submeshes" /\ submeshes = <<>>

(* C28: data_struct.Mesh.from_reader and mesh_struct.Mesh.from_reader      *)
(* agree on every buffer, with strict on and off: both fail, or both       *)
(* return meshes with equal vertices, indices and submesh fields.  The two *)
(* functions are the same up to the submesh records, so they agree when    *)
(* they agree from there on.                                               *)
C28_ParsersAgree ==
  BeforeSubmeshes =>
    SubMeshesFromReader(buf, pos, strict, "data_struct", submesh_count, <<>>)
      = SubMeshesFromReader(buf, pos, strict, "mesh_struct", submesh_count, <<>>)

(* ---- the triangles of a physics mesh ---- *)

(* the faces of the MESH objects save_phys was given *)
PhysFacesGiven ==
  Flatten([o \in 1..Len(pio.objects) |->
             IF pio.objects[o].type = "MESH" THEN pio.objects[o].faces ELSE <<>>])

(* the face is written as three consecutive vertices of some sub-mesh,     *)
(* starting at a multiple of 3                                             *)
WrittenConsecutively(face, value) ==
  \E i \in 1..Len(value.sub_phys_meshes) :
    LET vs == value.sub_phys_meshes[i].vertices
    IN \E k \in 0..(Len(vs) \div 3 - 1) :
         \A j \in 1..3 : vs[3 * k + j] = FromBlenderVec(face.co[j])

RECURSIVE VertexSum(_, _)
VertexSum(subs, k) ==
  IF k = 0 THEN 0 ELSE VertexSum(subs, k - 1) + Len(subs[k].vertices)

(* C24: for a sub-mesh with n vertices load_phys builds exactly floor(n/3) *)
(* triangles, the k-th being (3k, 3k+1, 3k+2); every triangle index is     *)
(* below n and no vertex is in two triangles, whatever the stored indices  *)
(* are; save_phys writes each triangle as 3 consecutive vertices and an    *)
(* empty indices list.                                                     *)
C24_TrianglesByVertexOrder ==
  /\ pio.pc = "loaded" =>
       /\ Len(pio.made) = Len(phys.result.sub_phys_meshes)
       /\ \A i \in 1..Len(pio.made) :
            LET n == Len(phys.result.sub_phys_meshes[i].vertices)
                t == pio.made[i].triangles
            IN /\ Len(pio.made[i].vertices) = n
               /\ Len(t) = n \div 3
               /\ \A k \in 0..(Len(t) - 1) : t[k + 1] = <<3 * k, 3 * k + 1, 3 * k + 2>>
               /\ \A k \in 1..Len(t) : \A j \in 1..3 : 0 <= t[k][j] /\ t[k][j] < n
               /\ \A k1, k2 \in 1..Len(t) :
                    k1 # k2 => Range(t[k1]) \cap Range(t[k2]) = {}
  /\ pio.pc = "write" =>
       /\ \A i \in 1..Len(phys.m0.sub_phys_meshes) :
            phys.m0.sub_phys_meshes[i].indices = <<>>
       /\ VertexSum(phys.m0.sub_phys_meshes, Len(phys.m0.sub_phys_meshes))
            = 3 * Len(PhysFacesGiven)
       /\ \A f \in Range(PhysFacesGiven) : WrittenConsecutively(f, phys.m0)
       /\ phys.stage = "parse1" /\ phys.pc = "done" =>
            /\ Len(phys.result.sub_phys_meshes) = Len(phys.m0.sub_phys_meshes)
            /\ \A i \in 1..Len(phys.result.sub_phys_meshes) :
                 /\ phys.result.sub_phys_meshes[i].indices = <<>>
                 /\ phys.result.sub_phys_meshes[i].vertices
                      = phys.m0.sub_phys_meshes[i].vertices

C24_Witness ==
  /\ pio.pc = "loaded" /\ Len(pio.made) = 2
  /\ Len(phys.m0.sub_phys_meshes[1].indices) = 3
  /\ Len(pio.made[1].vertices) = 7
  /\ pio.made[1].triangles = <<<<0, 1, 2>>, <<3, 4, 5>>>>
  /\ pio.made[2].triangles = <<>>


====
